---------------------------- MODULE Spec2Model ----------------------------
(***************************************************************************)
(* Model of the answer-grounding verification pipeline of the GDPR RAG     *)
(* assistant: AgentOrchestrator.run (src/src/agent_orchestrator.py) with    *)
(* the analysers it drives (agent_tools.py, citation_verify.py,             *)
(* hallucination.py, rag.py) and the audit log (audit.py).                  *)
(*                                                                         *)
(* Text abstraction.  A text is the sequence of the sentence fragments the *)
(* splitters of the code cut it into.  A fragment carries what the code     *)
(* reads from it: the citation markers the regular expressions find in it   *)
(* (marks), its length in characters (len), and the embedding vector the   *)
(* embedding service returns for it (vec).  String concatenation is         *)
(* sequence concatenation.  An evidence chunk is one sentence, shorter than *)
(* every prefix the code takes of a chunk ([:400] ... [:1000]).             *)
(***************************************************************************)
EXTENDS Integers, Sequences, FiniteSets, TLC

\* ------------------------------------------------------------------ bounds

\* Longest answer, in sentence fragments, the generation service returns.
MaxSent == 2
\* Largest index snapshot, in chunks.
MaxDocs == 2
\* Longest support analysis handed to regenerate_if_needed on its own.
MaxAnalysisSent == 5
\* Longest answer and largest evidence set handed to analyze_support on its own.
MaxFnSent == 2
MaxFnDocs == 2
\* How often an analyser is called again with the same input.
MaxCalls == 2
\* Longest answer, in sentences, handed to citation_checker on its own.
MaxCheckSent == 10
\* Most citation markers in a text handed to verify_answer_citations.
MaxMarks == 3
\* Concurrent runs appending to the audit log, and the entries each appends.
MaxWriters == 2
MaxEntries == 2
\* Runs of the orchestrator on one index snapshot.
MaxRuns == 2

\* --------------------------------------------------------- program constants

\* rag.answer's default k (the orchestrator calls it without k).
RagDefaultK == 5
\* citation_checker: low = coverage < 0.3, as the fraction 3/10.
CoverageLowNum == 3
CoverageLowDen == 10
\* OrchestratorConfig.hallucination_threshold = 0.58, in hundredths.
ThresholdPct == 58
\* _split_sentences keeps the fragments with len(s) > 20.
ShortLen == 20
\* final_answer[:400] in the terminal audit event.
PreviewLen == 400
\* The offline summarizer returns joined[:500].
OfflineSummaryLen == 500
\* log_retrieval describes docs[:10].
LogDocs == 10

\* ------------------------------------------------------------------ helpers

None == <<>>
Some(x) == <<x>>
IsSome(o) == Len(o) > 0
Get(o) == o[1]

Max(a, b) == IF a >= b THEN a ELSE b
Min(a, b) == IF a <= b THEN a ELSE b

RECURSIVE SeqsUpTo(_, _)
\* All sequences over S of length at most n.
SeqsUpTo(S, n) ==
    IF n = 0 THEN {<<>>}
    ELSE LET shorter == SeqsUpTo(S, n - 1)
         IN  shorter \cup {Append(s, x) : s \in {t \in shorter : Len(t) = n - 1}, x \in S}

RECURSIVE Flatten(_)
\* Concatenation of a sequence of sequences.
Flatten(ss) == IF ss = <<>> THEN <<>> ELSE Head(ss) \o Flatten(Tail(ss))

RECURSIVE Filter(_, _)
\* The subsequence of s whose positions are in keep.
Filter(s, keep) ==
    IF s = <<>> THEN <<>>
    ELSE LET n == Len(s)
             front == Filter(SubSeq(s, 1, n - 1), keep)
         IN  IF n \in keep THEN Append(front, s[n]) ELSE front

\* A list(...) that keeps every occurrence.
DedupKeepAll(s) == s

RECURSIVE Dedup(_)
\* list(dict.fromkeys(s)): the distinct members of s in first-occurrence order.
Dedup(s) ==
    IF s = <<>> THEN <<>>
    ELSE LET n == Len(s)
             front == Dedup(SubSeq(s, 1, n - 1))
         IN  IF \E i \in 1..Len(front) : front[i] = s[n] THEN front ELSE Append(front, s[n])

Range(s) == {s[i] : i \in 1..Len(s)}

\* ---------------------------------------------------------------- the texts

Article(n) == [k |-> "Article", n |-> n]
Page(n) == [k |-> "p", n |-> n]

\* A sentence fragment of a text: its markers, its length, its embedding.
Frag(marks, len, vec) == [t |-> "text", marks |-> marks, len |-> len, vec |-> vec]

\* len(text).
RECURSIVE Chars(_)
Chars(text) == IF text = <<>> THEN 0 ELSE Head(text).len + Chars(Tail(text))

\* A preview that is the whole text.
TakeAll(text, n) == text

RECURSIVE Take(_, _)
\* text[:n].  A fragment the slice cuts keeps its length only.
Take(text, n) ==
    IF text = <<>> \/ n <= 0 THEN <<>>
    ELSE IF Head(text).len <= n THEN <<Head(text)>> \o Take(Tail(text), n - Head(text).len)
    ELSE <<Frag(<<>>, n, <<0, 0>>)>>

\* The sentences the generation service answers with: a long cited one, a
\* plain one on another topic, and a cited fragment too short to be scored.
GenSentences ==
    { Frag(<<Article(1)>>, 250, <<1, 0>>),
      Frag(<<>>, 30, <<0, 1>>),
      Frag(<<Article(2)>>, 10, <<1, 1>>) }

\* The texts the generation service can return (the empty text included).
GenAnswers == SeqsUpTo(GenSentences, MaxSent)

\* The question of the run; the model follows one question.
Question == "question"

\* An evidence chunk: Document(page_content, metadata={"page": page}); its
\* page_content is one sentence.
Doc(page, sent) == [page |-> page, sent |-> sent]

DocKinds ==
    { Doc(1, Frag(<<Article(1)>>, 60, <<1, 0>>)),
      Doc(2, Frag(<<>>, 50, <<0, 1>>)) }

\* An index snapshot: its chunks in relevance order for the question.
Stores == SeqsUpTo(DocKinds, MaxDocs)

\* The texts the generation service returns to the summarizer: the empty
\* summary and a summary of one sentence (no decision of run reads them).
SummaryTexts == {<<>>, <<Frag(<<Article(1)>>, 250, <<1, 0>>)>>}

\* ------------------------------------------------------- agent_tools.py

\* store.similarity_search(query, k): the k most relevant chunks.
similarity_search(st, k) == SubSeq(st, 1, Min(k, Len(st)))

\* CITATION_PATTERN.findall(text): every marker, duplicates kept, in order.
FindCitations(text) == Flatten([i \in 1..Len(text) |-> text[i].marks])

\* coverage <= 0.3 for coverage = c / s.
CoverageLowInclusive(c, s) == c * CoverageLowDen <= CoverageLowNum * s
\* coverage < 0.3 for coverage = c / s.
CoverageLow(c, s) == c * CoverageLowDen < CoverageLowNum * s

\* citation_checker(answer); citation_coverage is the fraction <<c, max(s,1)>>.
\* A piece of length 0 is what re.split leaves between two terminators or at
\* the end of the text; "if s.strip()" drops it.
citation_checker(answer) ==
    LET citations == FindCitations(answer)
        s == Cardinality({i \in 1..Len(answer) : answer[i].len > 0})
    IN  [citations |-> citations,
         sentence_count |-> s,
         citation_coverage |-> <<Len(citations), Max(s, 1)>>,
         low |-> CoverageLow(Len(citations), Max(s, 1))]

\* ---------------------------------------------------- citation_verify.py

\* extract_citations(text): the distinct article numbers, first occurrence first.
extract_citations(text) ==
    LET all == FindCitations(text)
        arts == Filter(all, {i \in 1..Len(all) : all[i].k = "Article"})
    IN  Dedup([i \in 1..Len(arts) |-> arts[i].n])

verify_answer_citations(answer, context) ==
    LET cited == extract_citations(answer)
        context_nums == Range(extract_citations(context))
        missing == Filter(cited, {i \in 1..Len(cited) : cited[i] \notin context_nums})
    IN  [cited |-> cited, missing |-> missing, all_present |-> Len(missing) = 0]

\* ------------------------------------------------------- hallucination.py

\* _split_sentences(text): the fragments longer than 20 characters.
split_sentences(text) == Filter(text, {i \in 1..Len(text) : text[i].len > ShortLen})

RECURSIVE Dot(_, _, _)
\* sum(x*y for x, y in zip(a, b)) over the first n positions.
Dot(a, b, n) == IF n = 0 THEN 0 ELSE Dot(a, b, n - 1) + a[n] * b[n]

\* _cosine(a, b).  The value is kept as its signed square p/q, written <<p, q>>
\* with q > 0: squaring keeps the order of the cosines and avoids the roots.
cosine(a, b) ==
    IF a = <<>> \/ b = <<>> THEN <<0, 1>>
    ELSE LET n == Min(Len(a), Len(b))
             num == Dot(a, b, n)
             da2 == Dot(a, a, Len(a))
             db2 == Dot(b, b, Len(b))
         IN  IF da2 = 0 \/ db2 = 0 THEN <<0, 1>>
             ELSE <<(IF num < 0 THEN -1 ELSE 1) * num * num, da2 * db2>>

\* x > y and x < y on the fractions above.
SimGreater(x, y) == x[1] * y[2] > y[1] * x[2]
\* sim < threshold, the threshold in hundredths (squared like the cosine).
BelowThreshold(x, pct) == x[1] * 10000 < pct * pct * x[2]

\* The smallest similarity over the first n chunk vectors.
BestSimMin(vec, chunk_vecs, n) ==
    IF n = 0 THEN <<0, 1>>
    ELSE LET sims == {cosine(vec, chunk_vecs[j]) : j \in 1..n}
         IN  CHOOSE x \in sims : \A y \in sims : ~SimGreater(x, y)

RECURSIVE BestSim(_, _, _)
\* The inner loop of analyze_support: best starts at 0.0 and is replaced by
\* every strictly greater similarity, over the first n chunk vectors.
BestSim(vec, chunk_vecs, n) ==
    IF n = 0 THEN <<0, 1>>
    ELSE LET best == BestSim(vec, chunk_vecs, n - 1)
             sim == cosine(vec, chunk_vecs[n])
         IN  IF SimGreater(sim, best) THEN sim ELSE best

Raised(by) == [raised |-> TRUE, by |-> by]

\* The embedding calls analyze_support makes when online: call 0 is the one
\* embed_documents batch (made only for a non-empty chunk list), call i the
\* embed_query of sentence i.
EmbedCalls(answer, docs) ==
    (IF docs = <<>> THEN {} ELSE {0}) \cup (1..Len(split_sentences(answer)))

\* An offline analysis that marks no sentence low-support.
analyze_supportNoFailSafe(answer, docs, pct, online, bad) ==
    LET sentences == split_sentences(answer)
    IN  [raised |-> FALSE, offline |-> TRUE, sentences |-> sentences,
         scores |-> [i \in 1..Len(sentences) |-> <<0, 1>>],
         low_support |-> <<>>, threshold |-> pct]

\* analyze_support(answer, docs, threshold).  online: the client has an API
\* key.  bad: the embedding calls that fail.
analyze_support(answer, docs, pct, online, bad) ==
    LET sentences == split_sentences(answer)
        n == Len(sentences)
    IN  IF ~online
        THEN [raised |-> FALSE, offline |-> TRUE, sentences |-> sentences,
              scores |-> [i \in 1..n |-> <<0, 1>>],
              low_support |-> sentences, threshold |-> pct]
        ELSE IF bad \cap EmbedCalls(answer, docs) # {}
        THEN Raised("embedding")
        ELSE LET chunk_vecs == [j \in 1..Len(docs) |-> docs[j].sent.vec]
                 scores == [i \in 1..n |->
                              BestSim(sentences[i].vec, chunk_vecs, Len(chunk_vecs))]
             IN  [raised |-> FALSE, offline |-> FALSE, sentences |-> sentences,
                  scores |-> scores,
                  low_support |->
                      Filter(sentences, {i \in 1..n : BelowThreshold(scores[i], pct)}),
                  threshold |-> pct]

\* len(low)/max(len(sentences),1) <= regen_ratio, the ratio a fraction <<num, den>>.
RatioOkStrict(low, sents, ratio) == low * ratio[2] < ratio[1] * Max(sents, 1)
RatioOk(low, sents, ratio) == low * ratio[2] <= ratio[1] * Max(sents, 1)

\* A regenerate_if_needed without the check of analysis["offline"].
regenerate_if_neededIgnoresOffline(answer, analysis, ratio, key, resp) ==
    IF analysis.sentences = <<>>
    THEN [raised |-> FALSE, regenerated |-> FALSE, answer |-> answer, reason |-> "no_sentences"]
    ELSE IF RatioOk(Len(analysis.low_support), Len(analysis.sentences), ratio)
    THEN [raised |-> FALSE, regenerated |-> FALSE, answer |-> answer, reason |-> "ratio_ok"]
    ELSE IF ~key
    THEN [raised |-> FALSE, regenerated |-> FALSE, answer |-> answer, reason |-> "offline"]
    ELSE IF ~IsSome(resp)
    THEN Raised("generation")
    ELSE [raised |-> FALSE, regenerated |-> TRUE, answer |-> Get(resp),
          low_support_before |-> analysis.low_support, reason |-> "regen_trigger"]

\* regenerate_if_needed(question, answer, docs, analysis, regen_ratio).
\* key: OPENAI_API_KEY is set when the client is built.  resp: what
\* chat.completions.create does, Some(text), or None when the call fails.
regenerate_if_needed(answer, analysis, ratio, key, resp) ==
    IF analysis.offline
    THEN [raised |-> FALSE, regenerated |-> FALSE, answer |-> answer, reason |-> "offline"]
    ELSE IF analysis.sentences = <<>>
    THEN [raised |-> FALSE, regenerated |-> FALSE, answer |-> answer, reason |-> "no_sentences"]
    ELSE IF RatioOk(Len(analysis.low_support), Len(analysis.sentences), ratio)
    THEN [raised |-> FALSE, regenerated |-> FALSE, answer |-> answer, reason |-> "ratio_ok"]
    ELSE IF ~key
    THEN [raised |-> FALSE, regenerated |-> FALSE, answer |-> answer, reason |-> "offline"]
    ELSE IF ~IsSome(resp)
    THEN Raised("generation")
    ELSE [raised |-> FALSE, regenerated |-> TRUE, answer |-> Get(resp),
          low_support_before |-> analysis.low_support, reason |-> "regen_trigger"]

\* ----------------------------------------------------------------- rag.py

\* _format_docs(docs): one block "[p.<page>] <header> :: <snippet>" per chunk,
\* joined by blank lines; the block of a chunk adds the page marker to it.
format_docs(docs) ==
    [i \in 1..Len(docs) |->
        Frag(<<Page(docs[i].page)>> \o docs[i].sent.marks, docs[i].sent.len + 10,
             docs[i].sent.vec)]

\* "[Offline Mode] Cannot access OpenAI API." is a sentence of its own.
OfflineNotice == Frag(<<>>, 40, <<0, 0>>)
\* "Retrieved context:\n" (19 characters) opens the sentence that follows it;
\* with nothing after it, it is a fragment of 18 characters.
RetrievedContext(text) ==
    IF text = <<>> THEN <<Frag(<<>>, 18, <<0, 0>>)>>
    ELSE <<[Head(text) EXCEPT !.len = @ + 19]>> \o Tail(text)

\* rag.answer(store, question, k=5).  search_ok: similarity_search returns.
\* resp: what chat.completions.create does, Some(text), or None when it fails.
rag_answer(st, key, search_ok, resp) ==
    IF ~search_ok THEN Raised("retriever")
    ELSE LET context_block == format_docs(similarity_search(st, RagDefaultK))
         IN  IF ~key
             THEN [raised |-> FALSE,
                   text |-> <<OfflineNotice>> \o RetrievedContext(context_block)]
             ELSE IF ~IsSome(resp) THEN Raised("generation")
             ELSE [raised |-> FALSE, text |-> Get(resp)]

\* ------------------------------------------------ agent_tools.summarizer

\* "[Offline summarizer] API key missing; using truncated context.\n"
OfflineSummarizerNotice == Frag(<<>>, 63, <<0, 0>>)

\* "\n\n".join(d.page_content[:n] for d in docs)
JoinContents(docs) == [i \in 1..Len(docs) |-> docs[i].sent]

\* A summarizer that asks the generation service whether a key is set or not.
summarizerOnlineOnly(docs, key, resp) ==
    IF ~IsSome(resp) THEN Raised("generation")
    ELSE [raised |-> FALSE, text |-> Get(resp)]

\* summarizer(question, docs); offline it returns the notice and joined[:500].
summarizer(docs, key, resp) ==
    IF ~key
    THEN [raised |-> FALSE,
          text |-> <<OfflineSummarizerNotice>> \o Take(JoinContents(docs), OfflineSummaryLen)]
    ELSE IF ~IsSome(resp) THEN Raised("generation")
    ELSE [raised |-> FALSE, text |-> Get(resp)]

\* --------------------------------------------------------------- the state

VARIABLES
    cfg,                 \* OrchestratorConfig
    key,                 \* OPENAI_API_KEY is set
    store,               \* the index snapshot, in relevance order
    pc,                  \* the state of run: a stage, "done" or "raised"
    docs,                \* run's local docs
    base_answer,         \* run's local base_answer (the working answer)
    ccheck,              \* run's local ccheck
    citation_ver,        \* run's local citation_ver
    support,             \* run's local support
    regenerated_answer,  \* run's local regenerated_answer (None or a text)
    improved,            \* run's local improved
    fallback_used,       \* run's local fallback_used
    steps,               \* run's local steps
    DECISIONS,           \* audit._DECISIONS
    session_file,        \* the entries SESSION_FILE holds
    result,              \* what run returned: None, or Some of the dict
    raised_by,           \* the collaborator whose exception left run
    calls,               \* history: the calls run made, in order
    embed_bad,           \* history: the embedding calls that failed
    fin,                 \* the input of a function applied on its own
    fout,                \* its result
    writers,             \* the threads inside audit._append, one per concurrent run
    earlier              \* history: what the earlier runs on this store returned

runvars == <<docs, base_answer, ccheck, citation_ver, support, regenerated_answer,
             improved, fallback_used, steps, result>>
auditvars == <<DECISIONS, session_file>>
envvars == <<cfg, key, store>>
fnvars == <<fin, fout, writers, earlier>>
vars == <<envvars, pc, runvars, auditvars, raised_by, calls, embed_bad, fnvars>>

\* A small k_retrieval beside the default one.
SmallK == 1

\* regen_ratio: the default 0.4 and 0.5, as fractions <<num, den>>.
RegenRatios == {<<2, 5>>, <<1, 2>>}

Configs ==
    [k_retrieval : {SmallK, RagDefaultK},
     hallucination_threshold : {ThresholdPct},
     regen_ratio : RegenRatios,
     enable_fallback : BOOLEAN,
     enable_regeneration : BOOLEAN,
     append_diagnostics_footer : BOOLEAN]

Idle == [f |-> "none"]

\* The locals of run before its first statement, and the empty audit log of
\* a freshly imported audit module.
RunStart ==
    /\ pc = "retrieval"
    /\ docs = <<>>
    /\ base_answer = <<>>
    /\ ccheck = citation_checker(<<>>)
    /\ citation_ver = verify_answer_citations(<<>>, <<>>)
    /\ support = Raised("unset")
    /\ regenerated_answer = None
    /\ improved = <<>>
    /\ fallback_used = FALSE
    /\ steps = <<>>
    /\ DECISIONS = <<>>
    /\ session_file = <<>>
    /\ result = None
    /\ raised_by = "none"
    /\ calls = <<>>
    /\ embed_bad = {}

Init ==
    /\ cfg \in Configs
    /\ key \in BOOLEAN
    /\ store \in Stores
    /\ RunStart
    /\ fin = Idle
    /\ fout = Idle
    /\ writers = <<>>
    /\ earlier = <<>>

\* -------------------------------------------------------------- audit.py

\* _append(entry).  write_ok: SESSION_FILE.write_text returns.
append(entry, write_ok) ==
    /\ DECISIONS' = Append(DECISIONS, entry)
    /\ session_file' = IF write_ok THEN Append(DECISIONS, entry) ELSE session_file

\* log_retrieval(question, docs): the event and the metadata of docs[:10].
retrieval_entry(ds) ==
    [event |-> "retrieval",
     question |-> Question,
     results |-> [i \in 1..Min(LogDocs, Len(ds)) |->
                     [page |-> ds[i].page, len |-> ds[i].sent.len]]]

\* ------------------------------------------------- agent_orchestrator.py

\* The states of run in the order of its statements.
NextStateSwapped(s) ==
    CASE s = "retrieval" -> "baseline_answer"
      [] s = "baseline_answer" -> "citation_check"
      [] s = "citation_check" -> "support_analysis"
      [] s = "support_analysis" -> "fallback"
      [] s = "fallback" -> "regeneration"
      [] s = "regeneration" -> "finalize"
      [] s = "finalize" -> "done"
NextStateRetry(s) ==
    CASE s = "retrieval" -> "baseline_answer"
      [] s = "baseline_answer" -> "citation_check"
      [] s = "citation_check" -> "support_analysis"
      [] s = "support_analysis" -> "regeneration"
      [] s = "regeneration" -> "citation_check"
      [] s = "fallback" -> "finalize"
      [] s = "finalize" -> "done"
NextState(s) ==
    CASE s = "retrieval" -> "baseline_answer"
      [] s = "baseline_answer" -> "citation_check"
      [] s = "citation_check" -> "support_analysis"
      [] s = "support_analysis" -> "regeneration"
      [] s = "regeneration" -> "fallback"
      [] s = "fallback" -> "finalize"
      [] s = "finalize" -> "done"

\* An exception leaves run: nothing is returned.
Raise(by) == pc' = "raised" /\ raised_by' = by
Goto(s) == pc' = s /\ UNCHANGED raised_by

Call(op, out) == [op |-> op, out |-> out]

\* Step 1 (lines 50-53): retrieve, log_retrieval, the step record.
Retrieval ==
    /\ pc = "retrieval"
    /\ \E search_ok, write_ok \in BOOLEAN :
        LET found == similarity_search(store, cfg.k_retrieval)
        IN  /\ calls' = Append(calls, Call("similarity_search",
                                            IF search_ok THEN Some(found) ELSE None))
            /\ IF ~search_ok
               THEN Raise("retriever") /\ UNCHANGED <<docs, steps, auditvars>>
               ELSE /\ docs' = found
                    /\ append(retrieval_entry(found), write_ok)
                    /\ IF ~write_ok
                       THEN Raise("sink") /\ UNCHANGED steps
                       ELSE /\ steps' = Append(steps,
                                   [name |-> "retrieval", k |-> cfg.k_retrieval,
                                    retrieved |-> Len(found)])
                            /\ Goto(NextState("retrieval"))
    /\ UNCHANGED <<envvars, base_answer, ccheck, citation_ver, support,
                   regenerated_answer, improved, fallback_used, result,
                   embed_bad, fnvars>>

\* The answers of the generation service to one request: a text, or a failure.
\* Without an API key no request is made.
Responses(texts) == IF key THEN {None} \cup {Some(t) : t \in texts} ELSE {None}

\* Step 2 (lines 55-57): rag.answer and the step record.
BaselineAnswer ==
    /\ pc = "baseline_answer"
    /\ \E search_ok \in BOOLEAN, resp \in Responses(GenAnswers) :
        LET res == rag_answer(store, key, search_ok, resp)
            searched == IF search_ok THEN Some(similarity_search(store, RagDefaultK))
                        ELSE None
        IN  /\ calls' = calls \o <<Call("similarity_search", searched)>> \o
                        (IF search_ok /\ key THEN <<Call("chat.baseline", resp)>> ELSE <<>>)
            /\ IF res.raised
               THEN Raise(res.by) /\ UNCHANGED <<base_answer, steps>>
               ELSE /\ base_answer' = res.text
                    /\ steps' = Append(steps,
                           [name |-> "baseline_answer", chars |-> Chars(res.text)])
                    /\ Goto(NextState("baseline_answer"))
    /\ UNCHANGED <<envvars, docs, ccheck, citation_ver, support, regenerated_answer,
                   improved, fallback_used, result, auditvars, embed_bad, fnvars>>

\* Step 3 (lines 59-77): citation_checker, the cross-verification against the
\* context block of the retrieved chunks, the step record, then the audit event.
CitationCheck ==
    /\ pc = "citation_check"
    /\ \E write_ok \in BOOLEAN :
        LET cc == citation_checker(base_answer)
            context_block == JoinContents(docs)
            ver == verify_answer_citations(base_answer, context_block)
        IN  /\ ccheck' = cc
            /\ citation_ver' = ver
            /\ calls' = calls \o <<Call("citation_checker", None),
                                   Call("verify_answer_citations", None)>>
            /\ steps' = Append(steps,
                   [name |-> "citation_check", citations |-> Len(cc.citations),
                    sentence_count |-> cc.sentence_count,
                    coverage |-> cc.citation_coverage, low |-> cc.low,
                    missing_citations |-> ver.missing])
            /\ append([event |-> "citation_check", coverage |-> cc.citation_coverage,
                       citations |-> cc.citations, low |-> cc.low,
                       missing_citations |-> ver.missing], write_ok)
            /\ IF write_ok THEN Goto(NextState("citation_check")) ELSE Raise("sink")
    /\ UNCHANGED <<envvars, docs, base_answer, support, regenerated_answer, improved,
                   fallback_used, result, embed_bad, fnvars>>

\* Step 4 (lines 79-93): analyze_support, the step record, then the audit event.
SupportAnalysis ==
    /\ pc = "support_analysis"
    /\ \E write_ok \in BOOLEAN,
          bad \in (IF key THEN SUBSET EmbedCalls(base_answer, docs) ELSE {{}}) :
        LET sup == analyze_support(base_answer, docs, cfg.hallucination_threshold, key, bad)
        IN  /\ support' = sup
            /\ embed_bad' = bad
            /\ calls' = Append(calls, Call("analyze_support", None))
            /\ IF sup.raised
               THEN Raise(sup.by) /\ UNCHANGED <<steps, auditvars>>
               ELSE /\ steps' = Append(steps,
                           [name |-> "support_analysis",
                            sentences |-> Len(sup.sentences),
                            low_support_count |-> Len(sup.low_support),
                            threshold |-> sup.threshold, offline |-> sup.offline])
                    /\ append([event |-> "support_analysis",
                               low_support_count |-> Len(sup.low_support),
                               offline |-> sup.offline, threshold |-> sup.threshold],
                              write_ok)
                    /\ IF write_ok THEN Goto(NextState("support_analysis"))
                       ELSE Raise("sink")
    /\ UNCHANGED <<envvars, docs, base_answer, ccheck, citation_ver, regenerated_answer,
                   improved, fallback_used, result, fnvars>>

\* Step 5 (lines 95-107): the optional regeneration.  A regeneration that fires
\* appends its step record, logs its audit event and replaces base_answer; one
\* that does not fire appends its step record only.
Regeneration ==
    /\ pc = "regeneration"
    /\ \E write_ok \in BOOLEAN,
          resp \in (IF /\ cfg.enable_regeneration
                       /\ ~support.offline
                       /\ regenerate_if_needed(base_answer, support, cfg.regen_ratio,
                                               key, None).raised
                    THEN Responses(GenAnswers) ELSE {None}) :
        IF cfg.enable_regeneration /\ ~support.offline
        THEN LET res == regenerate_if_needed(base_answer, support, cfg.regen_ratio,
                                             key, resp)
             IN  IF res.raised
                 THEN /\ calls' = Append(calls, Call("chat.regeneration", resp))
                      /\ Raise(res.by)
                      /\ UNCHANGED <<base_answer, regenerated_answer, steps, auditvars>>
                 ELSE IF res.regenerated
                 THEN /\ calls' = Append(calls, Call("chat.regeneration", resp))
                      /\ regenerated_answer' = Some(res.answer)
                      /\ steps' = Append(steps,
                             [name |-> "regeneration", regenerated |-> TRUE,
                              reason |-> res.reason])
                      /\ append([event |-> "regeneration", reason |-> res.reason,
                                 low_support_before |-> res.low_support_before],
                                write_ok)
                      /\ IF write_ok
                         THEN base_answer' = res.answer /\ Goto(NextState("regeneration"))
                         ELSE Raise("sink") /\ UNCHANGED base_answer
                 ELSE /\ steps' = Append(steps,
                             [name |-> "regeneration", regenerated |-> FALSE,
                              reason |-> res.reason])
                      /\ Goto(NextState("regeneration"))
                      /\ UNCHANGED <<base_answer, regenerated_answer, calls, auditvars>>
        ELSE /\ Goto(NextState("regeneration"))
             /\ UNCHANGED <<base_answer, regenerated_answer, steps, calls, auditvars>>
    /\ UNCHANGED <<envvars, docs, ccheck, citation_ver, support, improved,
                   fallback_used, result, embed_bad, fnvars>>

\* len(support.get("sentences", [])) or 1
SentenceTotal(sup) == IF Len(sup.sentences) = 0 THEN 1 ELSE Len(sup.sentences)

\* What the fallback decision reads (lines 111-114): ccheck of step 3 and
\* support of step 4, whatever the working answer has become since.
FallbackInputsFresh(cc, sup, working, ds, pct, online) ==
    LET fresh == analyze_support(working, ds, pct, online, {})
    IN  [low |-> citation_checker(working).low,
         low_count |-> Len(fresh.low_support),
         sentence_total |-> SentenceTotal(fresh)]
FallbackInputs(cc, sup, working, ds, pct, online) ==
    [low |-> cc.low,
     low_count |-> Len(sup.low_support),
     sentence_total |-> SentenceTotal(sup)]

\* ccheck["low"] or low_ratio > regen_ratio, low_ratio = low_count / sentence_total
FallbackTriggerInclusive(in, ratio) ==
    in.low \/ in.low_count * ratio[2] >= ratio[1] * in.sentence_total
FallbackTrigger(in, ratio) ==
    in.low \/ in.low_count * ratio[2] > ratio[1] * in.sentence_total

\* Step 6 (lines 109-118): the conditional summarizer fallback.
Fallback ==
    /\ pc = "fallback"
    /\ \E write_ok \in BOOLEAN, resp \in Responses(SummaryTexts) :
        IF /\ cfg.enable_fallback
           /\ FallbackTrigger(FallbackInputs(ccheck, support, base_answer, docs,
                                             cfg.hallucination_threshold, key),
                              cfg.regen_ratio)
        THEN LET res == summarizer(docs, key, resp)
             IN  /\ calls' = IF key THEN Append(calls, Call("chat.summarizer", resp))
                             ELSE calls
                 /\ IF res.raised
                    THEN Raise(res.by) /\ UNCHANGED <<improved, fallback_used, steps, auditvars>>
                    ELSE /\ improved' = res.text
                         /\ fallback_used' = TRUE
                         /\ steps' = Append(steps,
                                [name |-> "summarizer_fallback", chars |-> Chars(res.text)])
                         /\ append([event |-> "summarizer_fallback",
                                    trigger |-> "citation_or_low_support",
                                    fallback_used |-> TRUE], write_ok)
                         /\ IF write_ok THEN Goto(NextState("fallback")) ELSE Raise("sink")
        ELSE /\ Goto(NextState("fallback"))
             /\ UNCHANGED <<improved, fallback_used, steps, calls, auditvars>>
    /\ UNCHANGED <<envvars, docs, base_answer, ccheck, citation_ver, support,
                   regenerated_answer, result, embed_bad, fnvars>>

\* "\n[orchestrator summarizer fallback]\n"
FallbackMarker == [t |-> "fallback_marker", len |-> 36]

\* bool(regenerated_answer): None and the empty text are false.
Truthy(o) == IsSome(o) /\ Get(o) # <<>>

\* f"{x:.2f}" of the fraction x >= 0: its hundredths, a tie going to the even one.
Format2(x) ==
    LET q == (100 * x[1]) \div x[2]
        r == (100 * x[1]) % x[2]
    IN  IF 2 * r > x[2] THEN q + 1
        ELSE IF 2 * r < x[2] THEN q
        ELSE q + (q % 2)

\* "\n" + " ".join(footer) (lines 124-132).
Footer(cc, sup, regen, used) ==
    [t |-> "footer",
     len |-> IF used THEN 103 ELSE 80,
     citations |-> Len(cc.citations),
     coverage |-> Format2(cc.citation_coverage),
     low_support |-> Len(sup.low_support),
     regen |-> IF Truthy(regen) THEN 1 ELSE 0,
     fallback |-> IF used THEN 1 ELSE 0,
     support_threshold |-> IF used THEN Some(sup.threshold) ELSE None]

\* A footer appended whatever the switch says.
DiagnosticsFooterAlways(on, cc, sup, regen, used) == <<Footer(cc, sup, regen, used)>>
\* if self.config.append_diagnostics_footer (line 123): the footer, or nothing.
DiagnosticsFooter(on, cc, sup, regen, used) ==
    IF on THEN <<Footer(cc, sup, regen, used)>> ELSE <<>>

\* Lines 120-132: the working answer, the fallback section, the footer.
ComposeAnswerReplace(working, used, summary, footer) ==
    (IF used THEN <<FallbackMarker>> \o summary ELSE working) \o footer
ComposeAnswer(working, used, summary, footer) ==
    working \o (IF used THEN <<FallbackMarker>> \o summary ELSE <<>>) \o footer

\* Lines 133-141: the diagnostics record.
DiagnosticsDistinct(cc, ver, sup, used, regen) ==
    [citation_coverage |-> cc.citation_coverage,
     citations |-> Cardinality(Range(cc.citations)),
     citation_list |-> cc.citations,
     missing_citations |-> ver.missing,
     low_support_count |-> Len(sup.low_support),
     fallback_used |-> used,
     regenerated |-> Truthy(regen)]
Diagnostics(cc, ver, sup, used, regen) ==
    [citation_coverage |-> cc.citation_coverage,
     citations |-> Len(cc.citations),
     citation_list |-> cc.citations,
     missing_citations |-> ver.missing,
     low_support_count |-> Len(sup.low_support),
     fallback_used |-> used,
     regenerated |-> Truthy(regen)]

\* Lines 119-143: the final answer, the diagnostics, the terminal audit event,
\* and the return.
Finalize ==
    /\ pc = "finalize"
    /\ \E write_ok \in BOOLEAN :
        LET footer == DiagnosticsFooter(cfg.append_diagnostics_footer, ccheck, support,
                                        regenerated_answer, fallback_used)
            final_answer == ComposeAnswer(base_answer, fallback_used, improved, footer)
            diagnostics == Diagnostics(ccheck, citation_ver, support, fallback_used,
                                       regenerated_answer)
        IN  /\ append([event |-> "agent_orchestrator_complete",
                       citation_coverage |-> diagnostics.citation_coverage,
                       citations |-> diagnostics.citations,
                       citation_list |-> diagnostics.citation_list,
                       missing_citations |-> diagnostics.missing_citations,
                       low_support_count |-> diagnostics.low_support_count,
                       fallback_used |-> diagnostics.fallback_used,
                       regenerated |-> diagnostics.regenerated,
                       answer_preview |-> Take(final_answer, PreviewLen)], write_ok)
            /\ IF write_ok
               THEN /\ result' = Some([answer |-> final_answer, steps |-> steps,
                                       diagnostics |-> diagnostics])
                    /\ Goto(NextState("finalize"))
               ELSE Raise("sink") /\ UNCHANGED result
    /\ UNCHANGED <<envvars, docs, base_answer, ccheck, citation_ver, support,
                   regenerated_answer, improved, fallback_used, steps, calls,
                   embed_bad, fnvars>>

Next ==
    \/ Retrieval
    \/ BaselineAnswer
    \/ CitationCheck
    \/ SupportAnalysis
    \/ Regeneration
    \/ Fallback
    \/ Finalize

Spec == Init /\ [][Next]_vars

\* ------------------------------------------- regenerate_if_needed on its own

\* A support analysis of n sentences with the ones at the positions low below
\* the threshold, as analyze_support builds it.
Analysis(offline, n, low) ==
    LET sentences == [i \in 1..n |-> Frag(<<>>, ShortLen + i, <<1, 0>>)]
    IN  [raised |-> FALSE, offline |-> offline, sentences |-> sentences,
         scores |-> [i \in 1..n |-> IF offline \/ i \in low THEN <<0, 1>> ELSE <<1, 1>>],
         low_support |-> Filter(sentences, low),
         threshold |-> ThresholdPct]

\* The analyses of at most MaxAnalysisSent sentences; offline, every sentence
\* is low-support.
Analyses ==
    UNION {{Analysis(FALSE, n, low) : low \in SUBSET (1..n)} : n \in 0..MaxAnalysisSent}
    \cup {Analysis(TRUE, m, 1..m) : m \in 0..MaxAnalysisSent}

\* The answer under analysis.
AnswerIn == <<Frag(<<>>, 30, <<1, 0>>)>>

RegenInputs ==
    [f : {"regenerate_if_needed"},
     answer : {AnswerIn},
     analysis : Analyses,
     regen_ratio : RegenRatios,
     key : BOOLEAN,
     resp : {None, Some(<<>>), Some(<<Frag(<<Article(1)>>, 250, <<1, 0>>)>>)}]

InitRegen ==
    /\ cfg \in {c \in Configs : /\ c.k_retrieval = RagDefaultK
                                /\ c.regen_ratio = <<2, 5>>
                                /\ c.enable_fallback /\ c.enable_regeneration
                                /\ c.append_diagnostics_footer}
    /\ key = FALSE
    /\ store = <<>>
    /\ pc = "function"
    /\ docs = <<>>
    /\ base_answer = <<>>
    /\ ccheck = citation_checker(<<>>)
    /\ citation_ver = verify_answer_citations(<<>>, <<>>)
    /\ support = Raised("unset")
    /\ regenerated_answer = None
    /\ improved = <<>>
    /\ fallback_used = FALSE
    /\ steps = <<>>
    /\ DECISIONS = <<>>
    /\ session_file = <<>>
    /\ result = None
    /\ raised_by = "none"
    /\ calls = <<>>
    /\ embed_bad = {}
    /\ fin \in RegenInputs
    /\ fout = Idle
    /\ writers = <<>>
    /\ earlier = <<>>

\* A call of regenerate_if_needed.
ApplyRegenerate ==
    /\ fin.f = "regenerate_if_needed"
    /\ fout = Idle
    /\ fout' = regenerate_if_needed(fin.answer, fin.analysis, fin.regen_ratio,
                                    fin.key, fin.resp)
    /\ UNCHANGED <<envvars, pc, runvars, auditvars, raised_by, calls, embed_bad, fin,
                   writers, earlier>>

NextRegen == ApplyRegenerate

SpecRegen == InitRegen /\ [][NextRegen]_vars

\* ----------------------------------------------- the analysers on their own

\* The sentences of the answers under analysis: one at cosine 0.6 and 0.8 of the
\* chunk kinds, one opposed to a chunk, one too short to be scored, one equal to
\* a chunk, one the service embeds as the zero vector.
FnSentences ==
    { Frag(<<>>, 30, <<3, 4>>),
      Frag(<<>>, 31, <<-1, 0>>),
      Frag(<<Article(2)>>, 10, <<1, 0>>),
      Frag(<<Article(1)>>, 25, <<1, 0>>),
      Frag(<<>>, 21, <<0, 0>>) }

FnDocKinds ==
    { Doc(1, Frag(<<Article(1)>>, 60, <<1, 0>>)),
      Doc(2, Frag(<<>>, 50, <<0, 1>>)),
      Doc(3, Frag(<<>>, 40, <<0, 0>>)) }

\* threshold: the orchestrator's default and 0.6.
Thresholds == {ThresholdPct, 60}

\* A call analyze_support(a, ds, threshold=pct); on: the wrapper's client has
\* an API key; b: the embedding calls that fail.
SupportInput(a, ds, pct, on, b) ==
    [f |-> "analyze_support", answer |-> a, docs |-> ds, threshold |-> pct,
     online |-> on, bad |-> b]

\* An answer of s sentences whose first k carry the marker "Article 1" d times,
\* followed by e empty pieces.
CheckText(s, k, d, e) ==
    [i \in 1..s |->
        Frag(IF i <= k THEN [j \in 1..d |-> Article(1)] ELSE <<>>, 30, <<1, 0>>)]
    \o [i \in 1..e |-> Frag(<<>>, 0, <<0, 0>>)]

CheckerInputs ==
    UNION {
      {[f |-> "citation_checker", answer |-> CheckText(s, k, d, e), s |-> s, c |-> k * d] :
          k \in 0..s, d \in 1..2, e \in 0..1} :
      s \in 0..MaxCheckSent }

\* The markers of the texts under cross-verification: two articles and a page.
MarkKinds == {Article(6), Article(9), Page(6)}

\* A text of one sentence with the markers ms.
MarkedText(ms) == IF ms = <<>> THEN <<>> ELSE <<Frag(ms, 30, <<1, 0>>)>>

VerifyInputs ==
    {[f |-> "verify_answer_citations", answer |-> MarkedText(am),
      context |-> MarkedText(cm)] :
        am \in SeqsUpTo(MarkKinds, MaxMarks), cm \in SeqsUpTo(MarkKinds, MaxMarks - 1)}

\* No run is in progress: a function of the analysers is applied on its own.
FunctionStart ==
    /\ cfg \in {c \in Configs : /\ c.k_retrieval = RagDefaultK
                                /\ c.regen_ratio = <<2, 5>>
                                /\ c.enable_fallback /\ c.enable_regeneration
                                /\ c.append_diagnostics_footer}
    /\ key = FALSE
    /\ store = <<>>
    /\ pc = "function"
    /\ docs = <<>>
    /\ base_answer = <<>>
    /\ ccheck = citation_checker(<<>>)
    /\ citation_ver = verify_answer_citations(<<>>, <<>>)
    /\ support = Raised("unset")
    /\ regenerated_answer = None
    /\ improved = <<>>
    /\ fallback_used = FALSE
    /\ steps = <<>>
    /\ DECISIONS = <<>>
    /\ session_file = <<>>
    /\ result = None
    /\ raised_by = "none"
    /\ calls = <<>>
    /\ embed_bad = {}
    /\ earlier = <<>>

InitAnalyzers ==
    /\ FunctionStart
    /\ \/ \E a \in SeqsUpTo(FnSentences, MaxFnSent),
              ds \in SeqsUpTo(FnDocKinds, MaxFnDocs),
              pct \in Thresholds,
              on \in BOOLEAN :
               \E b \in (IF on THEN SUBSET EmbedCalls(a, ds) ELSE {{}}) :
                   fin = SupportInput(a, ds, pct, on, b)
       \/ fin \in CheckerInputs
       \/ fin \in VerifyInputs
    /\ fout = <<>>
    /\ writers = <<>>

\* The state a call of an analyser leaves alone: everything but its result.
OnlyResult ==
    UNCHANGED <<envvars, pc, runvars, auditvars, raised_by, calls, embed_bad, fin,
                writers, earlier>>

\* A call of analyze_support; it may be called again with the same input.
ApplyAnalyzeSupport ==
    /\ fin.f = "analyze_support"
    /\ Len(fout) < MaxCalls
    /\ fout' = Append(fout, analyze_support(fin.answer, fin.docs, fin.threshold,
                                            fin.online, fin.bad))
    /\ OnlyResult

\* A call of citation_checker.
ApplyCitationChecker ==
    /\ fin.f = "citation_checker"
    /\ fout = <<>>
    /\ fout' = <<citation_checker(fin.answer)>>
    /\ OnlyResult

\* A call of verify_answer_citations.
ApplyVerify ==
    /\ fin.f = "verify_answer_citations"
    /\ fout = <<>>
    /\ fout' = <<verify_answer_citations(fin.answer, fin.context)>>
    /\ OnlyResult

NextAnalyzers ==
    \/ ApplyAnalyzeSupport
    \/ ApplyCitationChecker
    \/ ApplyVerify

SpecAnalyzers == InitAnalyzers /\ [][NextAnalyzers]_vars

\* ------------------------------------------- concurrent appends to the audit log

\* The entry number n of run w: log_event(event, data) builds it whole before
\* it calls _append.
Entry(w, n) == [event |-> "citation_check", run |-> w, n |-> n]

\* A thread of a run about to call _append for each of its entries in turn.
Writer(w) ==
    [todo |-> [n \in 1..MaxEntries |-> Entry(w, n)], at |-> "call", snapshot |-> <<>>]

InitAudit ==
    /\ FunctionStart
    /\ fin = Idle
    /\ fout = Idle
    /\ writers = [w \in 1..MaxWriters |-> Writer(w)]

OnlyAudit ==
    UNCHANGED <<envvars, pc, runvars, raised_by, calls, embed_bad, fin, fout, earlier>>

\* _append, line 14: _DECISIONS.append(entry).
AppendDecision(w) ==
    /\ writers[w].at = "call"
    /\ writers[w].todo # <<>>
    /\ DECISIONS' = Append(DECISIONS, Head(writers[w].todo))
    /\ writers' = [writers EXCEPT ![w].at = "appended"]
    /\ UNCHANGED session_file
    /\ OnlyAudit

\* _append, line 15: json.dumps(_DECISIONS) serialises the log as it is now.
DumpDecisions(w) ==
    /\ writers[w].at = "appended"
    /\ writers' = [writers EXCEPT ![w].at = "dumped", ![w].snapshot = DECISIONS]
    /\ UNCHANGED auditvars
    /\ OnlyAudit

\* _append, line 15: SESSION_FILE.write_text replaces the file by the dump.
WriteSessionFile(w) ==
    /\ writers[w].at = "dumped"
    /\ session_file' = writers[w].snapshot
    /\ writers' = [writers EXCEPT ![w].at = "call", ![w].todo = Tail(@),
                                  ![w].snapshot = <<>>]
    /\ UNCHANGED DECISIONS
    /\ OnlyAudit

NextAudit ==
    \E w \in 1..MaxWriters :
        \/ AppendDecision(w)
        \/ DumpDecisions(w)
        \/ WriteSessionFile(w)

SpecAudit == InitAudit /\ [][NextAudit]_vars

\* ------------------------------------------- runs repeated without a credential

InitOffline == Init /\ key = FALSE

\* The caller asks the same question again: a new call of run on the same
\* store.  The locals are fresh; audit._DECISIONS is the module's and stays.
NextRun ==
    /\ pc = "done"
    /\ Len(earlier) < MaxRuns - 1
    /\ earlier' = Append(earlier, Get(result))
    /\ pc' = "retrieval"
    /\ docs' = <<>>
    /\ base_answer' = <<>>
    /\ ccheck' = citation_checker(<<>>)
    /\ citation_ver' = verify_answer_citations(<<>>, <<>>)
    /\ support' = Raised("unset")
    /\ regenerated_answer' = None
    /\ improved' = <<>>
    /\ fallback_used' = FALSE
    /\ steps' = <<>>
    /\ result' = None
    /\ calls' = <<>>
    /\ embed_bad' = {}
    /\ UNCHANGED <<envvars, auditvars, raised_by, fin, fout, writers>>

NextRuns == Next \/ NextRun

SpecRuns == InitOffline /\ [][NextRuns]_vars

\* OrchestratorConfig(): the default configuration.
DefaultConfig ==
    [k_retrieval |-> RagDefaultK, hallucination_threshold |-> ThresholdPct,
     regen_ratio |-> <<2, 5>>, enable_fallback |-> TRUE,
     enable_regeneration |-> TRUE, append_diagnostics_footer |-> TRUE]

\* ------------------------------------- a run repeated with the footer off

\* a is the beginning of b.
IsPrefix(a, b) == Len(a) <= Len(b) /\ SubSeq(b, 1, Len(a)) = a

\* The caller runs the same question again on the same store with
\* append_diagnostics_footer off; what the first run returned and what its
\* collaborators did is kept.
NextRunWithoutFooter ==
    /\ pc = "done"
    /\ earlier = <<>>
    /\ cfg.append_diagnostics_footer
    /\ earlier' = <<[result |-> Get(result), calls |-> calls, embed_bad |-> embed_bad]>>
    /\ cfg' = [cfg EXCEPT !.append_diagnostics_footer = FALSE]
    /\ pc' = "retrieval"
    /\ docs' = <<>>
    /\ base_answer' = <<>>
    /\ ccheck' = citation_checker(<<>>)
    /\ citation_ver' = verify_answer_citations(<<>>, <<>>)
    /\ support' = Raised("unset")
    /\ regenerated_answer' = None
    /\ improved' = <<>>
    /\ fallback_used' = FALSE
    /\ steps' = <<>>
    /\ result' = None
    /\ calls' = <<>>
    /\ embed_bad' = {}
    /\ UNCHANGED <<key, store, auditvars, raised_by, fin, fout, writers>>

\* In the second run the store, the generation service and the embedding
\* service do what they did in the first.
Replays ==
    earlier # <<>> =>
        /\ IsPrefix(calls, earlier[1].calls)
        /\ embed_bad = (IF \E i \in 1..Len(calls) : calls[i].op = "analyze_support"
                        THEN earlier[1].embed_bad ELSE {})

NextSwitch ==
    \/ Next /\ Replays'
    \/ NextRunWithoutFooter

\* The runs under comparison differ in the three switches alone.
InitSwitch ==
    /\ Init
    /\ cfg.k_retrieval = DefaultConfig.k_retrieval
    /\ cfg.regen_ratio = DefaultConfig.regen_ratio

SpecSwitch == InitSwitch /\ [][NextSwitch]_vars

\* ------------------------------------------------------- langgraph_agent.py

\* regen_ratio=0.4 of node_regen and the 0.4 of node_fallback.
LgRegenRatio == <<2, 5>>

\* "\n[lg summarizer fallback]\n"
LgFallbackMarker == [t |-> "lg_fallback_marker", len |-> 26]

\* The edges of run_langgraph_agent that leave the regen and fallback nodes.
LgEdge(node) ==
    CASE node = "support" -> "regen"
      [] node = "regen" -> "fallback"
      [] node = "fallback" -> "finalize"

\* The AgentState the support node hands on: the evidence, the answer, the
\* citation report and the support analysis; the keys regenerated and
\* fallback_used are not set yet (state.get reads them as false).  node is
\* the node that returned the state.
AgentState(ds, answer, cc, sup) ==
    [raised |-> FALSE, node |-> "support", docs |-> ds, answer |-> answer,
     citations |-> cc.citations, citation_coverage |-> cc.citation_coverage,
     support |-> sup, regenerated |-> FALSE, fallback_used |-> FALSE]

\* Lines 99-109, the log_event apart.
node_regen(state, k, resp) ==
    IF state.support.offline THEN [state EXCEPT !.node = "regen"]
    ELSE LET regen_res == regenerate_if_needed(state.answer, state.support,
                                               LgRegenRatio, k, resp)
         IN  IF regen_res.raised THEN regen_res
             ELSE IF regen_res.regenerated
             THEN [state EXCEPT !.node = "regen", !.answer = regen_res.answer,
                                !.regenerated = TRUE]
             ELSE [state EXCEPT !.node = "regen"]

\* A condition that reads the low-support ratio alone.
lg_triggerRatioOnly(state) ==
    Len(state.support.low_support) * LgRegenRatio[2]
        > LgRegenRatio[1] * SentenceTotal(state.support)
\* Lines 114-119: coverage < 0.3 or low_ratio > 0.4.
lg_trigger(state) ==
    \/ state.citation_coverage[1] * 10 < 3 * state.citation_coverage[2]
    \/ Len(state.support.low_support) * LgRegenRatio[2]
           > LgRegenRatio[1] * SentenceTotal(state.support)

\* Lines 112-123, the log_event apart.
node_fallback(state, k, resp) ==
    IF lg_trigger(state)
    THEN LET fb == summarizer(state.docs, k, resp)
         IN  IF fb.raised THEN fb
             ELSE [state EXCEPT !.node = "fallback",
                                !.answer = state.answer \o <<LgFallbackMarker>> \o fb.text,
                                !.fallback_used = TRUE]
    ELSE [state EXCEPT !.node = "fallback"]

\* ------------------------- the LangGraph nodes beside AgentOrchestrator.run

InitMirror == Init /\ cfg = DefaultConfig

\* The regen node is given what run holds when it reaches its own
\* regeneration step: the same answer, evidence, citation report and analysis.
\* The service answers it with the empty text or with one sentence (no
\* decision of the nodes reads the text).
NodeRegen ==
    /\ pc = "regeneration"
    /\ fin = Idle
    /\ LET state == AgentState(docs, base_answer, ccheck, support)
       IN  \E write_ok \in BOOLEAN,
              resp \in (IF node_regen(state, key, None).raised
                        THEN Responses(SummaryTexts) ELSE {None}) :
               LET out == node_regen(state, key, resp)
               IN  /\ fin' = [f |-> "langgraph", state |-> state,
                              node |-> LgEdge("regen")]
                   /\ IF ~out.raised /\ out.regenerated
                      THEN /\ append([event |-> "lg_regen", reason |-> "regen_trigger"],
                                     write_ok)
                           /\ fout' = IF write_ok THEN <<out>> ELSE <<Raised("sink")>>
                      ELSE /\ fout' = <<out>>
                           /\ UNCHANGED auditvars
    /\ UNCHANGED <<envvars, pc, runvars, raised_by, calls, embed_bad, writers, earlier>>

\* The fallback node is given the state the regen node returned; it is run
\* when run is at its own fallback step.
NodeFallback ==
    /\ pc = "fallback"
    /\ fin # Idle
    /\ fin.node = "fallback"
    /\ ~fout[Len(fout)].raised
    /\ LET state == fout[Len(fout)]
       IN  \E write_ok \in BOOLEAN,
              resp \in (IF lg_trigger(state) THEN Responses(SummaryTexts) ELSE {None}) :
               LET out == node_fallback(state, key, resp)
               IN  /\ fin' = [fin EXCEPT !.node = LgEdge("fallback")]
                   /\ IF ~out.raised /\ out.fallback_used
                      THEN /\ append([event |-> "lg_fallback",
                                      trigger |-> "citation_or_low_support"], write_ok)
                           /\ fout' = Append(fout, IF write_ok THEN out
                                                   ELSE Raised("sink"))
                      ELSE /\ fout' = Append(fout, out)
                           /\ UNCHANGED auditvars
    /\ UNCHANGED <<envvars, pc, runvars, raised_by, calls, embed_bad, writers, earlier>>

NextMirror ==
    \/ Next
    \/ NodeRegen
    \/ NodeFallback

SpecMirror == InitMirror /\ [][NextMirror]_vars

\* ------------------------------------------------------------- graph_rag.py

\* The pages one build reads, the anchors one expansion starts from, and the
\* depth it walks.
MaxGraphDocs == 2
MaxAnchors == 2
MaxDepth == 2

\* _doc_snippet's max_len.
SnippetLen == 400
\* The ranges validate_completeness expects and the cap of its missing lists.
ArticleRange == 99
RecitalRange == 173
MissingCap == 20

\* What ARTICLE_RE, RECITAL_RE and CHAPTER_RE match in a text: the type of the
\* marker and the number it captures (a token; "5" and "05" are two tokens).
Mention(type, number) == [type |-> type, number |-> number]

\* A page of the source: its text is the markers it holds, in text order, and
\* its length; page is metadata["page"], or None when the metadata has none.
RawDoc(page, len, text) == [page |-> page, len |-> len, page_content |-> text]

GraphPageKinds ==
    {RawDoc(Some(1), 300, <<Mention("chapter", 1), Mention("article", 1)>>),
     RawDoc(Some(2), 500, <<Mention("recital", 1), Mention("article", 1),
                            Mention("article", 2)>>),
     RawDoc(Some(2), 300, <<Mention("chapter", 2), Mention("article", 1)>>),
     RawDoc(None, 300, <<Mention("article", 2)>>),
     RawDoc(Some(3), 300, <<Mention("recital", 2)>>)}

\* RE.findall(text): the numbers of the markers of one type, in text order.
findall(type, text) ==
    LET at == Filter(text, {i \in 1..Len(text) : text[i].type = type})
    IN  [i \in 1..Len(at) |-> at[i].number]

\* f"{type}_{number}"
NodeId(type, number) == <<type, number>>

\* Lines 29-48: per page its article nodes, then its recital nodes, then its
\* chapter nodes; the page defaults to the index of the document.
extract_structured_nodes(raw_docs) ==
    Flatten([i \in 1..Len(raw_docs) |->
        LET d == raw_docs[i]
            page == IF IsSome(d.page) THEN Get(d.page) ELSE i - 1
            of(type) ==
                LET found == findall(type, d.page_content)
                IN  [j \in 1..Len(found) |->
                        [type |-> type, id |-> NodeId(type, found[j]),
                         number |-> found[j], page |-> page,
                         text |-> d.page_content, len |-> d.len]]
        IN  of("article") \o of("recital") \o of("chapter")])

\* nx.Graph(): the nodes in insertion order, each id with its attributes, and
\* the undirected edges with theirs.
EmptyGraph == [nodes |-> <<>>, edges |-> {}]
NoAttrs == [type |-> "none"]

has_node(g, id) == \E i \in 1..Len(g.nodes) : g.nodes[i].id = id
NodeIds(g) == {g.nodes[i].id : i \in 1..Len(g.nodes)}
Attrs(g, id) == g.nodes[CHOOSE i \in 1..Len(g.nodes) : g.nodes[i].id = id].attrs

\* An insertion that never looks for the id.
add_nodeAppend(g, id, attrs) ==
    [g EXCEPT !.nodes = Append(g.nodes, [id |-> id, attrs |-> attrs])]
\* g.add_node(id, **attrs): a new id is appended, a known id has its
\* attributes overwritten.
add_node(g, id, attrs) ==
    IF has_node(g, id)
    THEN [g EXCEPT !.nodes = [i \in 1..Len(g.nodes) |->
                                 IF g.nodes[i].id = id
                                 THEN [id |-> id, attrs |-> attrs]
                                 ELSE g.nodes[i]]]
    ELSE [g EXCEPT !.nodes = Append(g.nodes, [id |-> id, attrs |-> attrs])]

\* g.add_edge(u, v, relation=rel): endpoints the graph does not have are added
\* without attributes; the edge between u and v is one, its relation the last set.
add_edge(g, u, v, rel) ==
    LET gu == IF has_node(g, u) THEN g ELSE add_node(g, u, NoAttrs)
        gv == IF has_node(gu, v) THEN gu ELSE add_node(gu, v, NoAttrs)
    IN  [gv EXCEPT !.edges = {e \in gv.edges : e.ends # {u, v}}
                               \cup {[ends |-> {u, v}, relation |-> rel]}]

RECURSIVE add_nodes(_, _)
\* Lines 54-55.
add_nodes(g, nodes) ==
    IF nodes = <<>> THEN g
    ELSE add_nodes(add_node(g, Head(nodes).id, Head(nodes)), Tail(nodes))

RECURSIVE add_edges(_, _)
add_edges(g, es) ==
    IF es = <<>> THEN g
    ELSE add_edges(add_edge(g, Head(es)[1], Head(es)[2], Head(es)[3]), Tail(es))

\* [n for n in nodes if n["type"] == type]
OfType(nodes, type) == Filter(nodes, {i \in 1..Len(nodes) : nodes[i].type = type})

\* Lines 57-63: every chapter entry with every article entry of its page.
chapter_contains(nodes) ==
    LET chapters == OfType(nodes, "chapter")
        articles == OfType(nodes, "article")
    IN  Flatten([c \in 1..Len(chapters) |->
            Flatten([a \in 1..Len(articles) |->
                IF articles[a].page = chapters[c].page
                THEN <<<<chapters[c].id, articles[a].id, "chapter_contains">>>>
                ELSE <<>>])])

\* A linking of every recital entry with every article its text mentions.
recital_referencesUnchecked(g, nodes) ==
    LET recitals == OfType(nodes, "recital")
    IN  Flatten([r \in 1..Len(recitals) |->
            LET mentioned == findall("article", recitals[r].text)
            IN  [a \in 1..Len(mentioned) |->
                    <<recitals[r].id, NodeId("article", mentioned[a]),
                      "recital_references">>]])

\* Lines 64-70: every recital entry with the articles its text mentions, when
\* the graph has them.
recital_references(g, nodes) ==
    LET recitals == OfType(nodes, "recital")
    IN  Flatten([r \in 1..Len(recitals) |->
            LET mentioned == findall("article", recitals[r].text)
            IN  Flatten([a \in 1..Len(mentioned) |->
                    IF has_node(g, NodeId("article", mentioned[a]))
                    THEN <<<<recitals[r].id, NodeId("article", mentioned[a]),
                             "recital_references">>>>
                    ELSE <<>>])])

\* Lines 51-71.
build_graph(nodes) ==
    LET g0 == add_nodes(EmptyGraph, nodes)
        g1 == add_edges(g0, chapter_contains(nodes))
    IN  add_edges(g1, recital_references(g1, nodes))

\* A graph whose nodes have no neighbours.
neighborsNone(g, n) == {}
\* graph.neighbors(n)
neighbors(g, n) == {m \in NodeIds(g) : \E e \in g.edges : e.ends = {n, m}}

RECURSIVE Visit(_, _, _, _)
\* Lines 83-90: one round per unit of depth; the frontier of the next round is
\* what this round added to visited.
Visit(visited, frontier, g, depth) ==
    IF depth = 0 THEN visited
    ELSE LET new_frontier == UNION {neighbors(g, n) : n \in frontier} \ visited
         IN  Visit(visited \cup new_frontier, new_frontier, g, depth - 1)

RECURSIVE ListsOf(_)
\* list(s) of a set s of strings: its members once each, in the order of the
\* hash table, which the hash seed of the process decides.
ListsOf(S) ==
    IF S = {} THEN {<<>>}
    ELSE UNION {{<<x>> \o t : t \in ListsOf(S \ {x})} : x \in S}

\* Lines 80-91: the lists the call may return.
expand_with_neighbors(anchor_ids, g, depth) ==
    ListsOf(Visit(Range(anchor_ids), Range(anchor_ids), g, depth))

\* page_rank.get(nid, 0.0)
Score(page_rank, nid) == IF nid \in DOMAIN page_rank THEN page_rank[nid] ELSE 0

RECURSIVE sorted_reverse(_, _)
\* sorted(ids, key=score, reverse=True): descending, equal keys keeping the
\* order they came in.
sorted_reverse(ids, page_rank) ==
    IF ids = <<>> THEN <<>>
    ELSE LET n == Len(ids)
             front == sorted_reverse(SubSeq(ids, 1, n - 1), page_rank)
             at == Cardinality({i \in 1..Len(front) :
                       Score(page_rank, front[i]) >= Score(page_rank, ids[n])})
         IN  SubSeq(front, 1, at) \o <<ids[n]>> \o SubSeq(front, at + 1, Len(front))

\* Lines 94-99: "[type:number] p.page (tag) content".
doc_snippet(g, nid, full) ==
    LET data == Attrs(g, nid)
    IN  [t |-> "block", type |-> data.type, number |-> data.number,
         page |-> data.page, tag |-> IF full THEN "full" ELSE "snippet",
         len |-> IF full THEN data.len ELSE Min(data.len, SnippetLen)]

\* "No structural nodes matched anchor retrieval."
NoStructuralMatch == [t |-> "no_structural_match"]

\* Lines 106-115: per retrieved chunk the article ids the graph has, then the
\* recital ids it has; the first occurrence of each id is kept.
anchor_ids_of(retrieved, g) ==
    Dedup(Flatten([i \in 1..Len(retrieved) |->
        LET ids(type) ==
                LET found == findall(type, retrieved[i].page_content)
                    at == Filter(found, {j \in 1..Len(found) :
                                            has_node(g, NodeId(type, found[j]))})
                IN  [j \in 1..Len(at) |-> NodeId(type, at[j])]
        IN  ids("article") \o ids("recital")]))

\* Lines 102-123.  expanded_ids is the list expand_with_neighbors returned
\* (unused when there is no anchor); besides the pair returned, the record
\* keeps the anchors and that list.
retrieve_with_graph(st, g, page_rank, k, neighbor_depth, full_pages, search_ok, expanded_ids) ==
    IF ~search_ok THEN Raised("retriever")
    ELSE LET retrieved == similarity_search(st, k)
             anchor_ids == anchor_ids_of(retrieved, g)
             scored == sorted_reverse(expanded_ids, page_rank)
             top == SubSeq(scored, 1, Min(2 * k, Len(scored)))
         IN  IF anchor_ids = <<>>
             THEN [raised |-> FALSE, context |-> <<NoStructuralMatch>>,
                   node_ids |-> <<>>, anchor_ids |-> <<>>, expanded_ids |-> None]
             ELSE [raised |-> FALSE,
                   context |-> [i \in 1..Len(top) |-> doc_snippet(g, top[i], full_pages)],
                   node_ids |-> scored, anchor_ids |-> anchor_ids,
                   expanded_ids |-> Some(expanded_ids)]

\* sorted(s) of a finite set of naturals: its members in ascending order.
sorted(S) ==
    IF S = {} THEN <<>>
    ELSE LET top == CHOOSE x \in S : \A y \in S : y <= x
         IN  SelectSeq([i \in 1..(top + 1) |-> i - 1], LAMBDA x : x \in S)

\* Lines 133-143: the numbers of the nodes of one type that int() accepts.
present(nodes, type) ==
    {Get(nodes[i].number) : i \in {j \in 1..Len(nodes) :
                                      nodes[j].type = type /\ IsSome(nodes[j].number)}}

\* Lines 126-157.
validate_completeness(nodes) ==
    LET articles_present == present(nodes, "article")
        recitals_present == present(nodes, "recital")
        missing_articles == sorted((1..ArticleRange) \ articles_present)
        missing_recitals == sorted((1..RecitalRange) \ recitals_present)
    IN  [articles_found |-> Cardinality(articles_present),
         recitals_found |-> Cardinality(recitals_present),
         missing_articles |-> SubSeq(missing_articles, 1,
                                     Min(MissingCap, Len(missing_articles))),
         missing_recitals |-> SubSeq(missing_recitals, 1,
                                     Min(MissingCap, Len(missing_recitals))),
         articles_complete |-> Len(missing_articles) = 0,
         recitals_complete |-> Len(missing_recitals) = 0]

\* ------------------------------------- the graph functions applied on their own

GraphDocs == SeqsUpTo(GraphPageKinds, MaxGraphDocs)

\* s without its entry i; all of s when i = 0.
DropAt(s, i) == Filter(s, (1..Len(s)) \ {i})

\* build_graph is given the parsed nodes of some pages, or those nodes less one.
BuildInput(raw, i) ==
    [f |-> "build_graph", raw_docs |-> raw, dropped |-> i,
     nodes |-> DropAt(extract_structured_nodes(raw), i)]

\* expand_with_neighbors is given a built graph, some of its node ids and a depth.
ExpandInput(raw, anchors, depth) ==
    [f |-> "expand_with_neighbors", raw_docs |-> raw,
     graph |-> build_graph(extract_structured_nodes(raw)),
     anchor_ids |-> anchors, depth |-> depth]

\* The node dicts of one type with the given numbers.
Numbered(type, numbers) ==
    LET s == sorted(numbers)
    IN  [i \in 1..Len(s) |-> [type |-> type, number |-> Some(s[i])]]

ArticleCounts == {0, 2, ArticleRange - MissingCap - 1, ArticleRange - MissingCap,
                  ArticleRange - 1, ArticleRange}
RecitalCounts == {0, 2, RecitalRange - MissingCap, RecitalRange}

\* validate_completeness is given articles 1..a less some holes and recitals
\* 1..r, numbers beyond the ranges (xa, xr), a chapter, a node whose number
\* int() refuses, and a second mention of article 2.
CompletenessInput(a, r, holes, xa, xr) ==
    [f |-> "validate_completeness",
     nodes |-> Numbered("article", ((1..a) \ holes) \cup xa)
               \o Numbered("recital", (1..r) \cup xr)
               \o <<[type |-> "chapter", number |-> Some(1)],
                    [type |-> "article", number |-> None]>>
               \o (IF a >= 2 THEN <<[type |-> "article", number |-> Some(2)]>>
                   ELSE <<>>)]

InitGraph ==
    /\ FunctionStart
    /\ \/ \E raw \in GraphDocs :
              \E i \in 0..Len(extract_structured_nodes(raw)) : fin = BuildInput(raw, i)
       \/ \E raw \in GraphDocs, depth \in 0..MaxDepth :
              \E anchors \in SeqsUpTo(NodeIds(build_graph(extract_structured_nodes(raw))),
                                      MaxAnchors) :
                  fin = ExpandInput(raw, anchors, depth)
       \/ \E a \in ArticleCounts, r \in RecitalCounts, holes \in {{}, {1}},
             xa \in SUBSET {0, ArticleRange + 1}, xr \in SUBSET {RecitalRange + 1} :
              fin = CompletenessInput(a, r, holes, xa, xr)
    /\ fout = <<>>
    /\ writers = <<>>

\* A call of build_graph.
ApplyBuildGraph ==
    /\ fin.f = "build_graph"
    /\ fout = <<>>
    /\ fout' = <<build_graph(fin.nodes)>>
    /\ OnlyResult

\* A call of expand_with_neighbors.
ApplyExpand ==
    /\ fin.f = "expand_with_neighbors"
    /\ fout = <<>>
    /\ \E out \in expand_with_neighbors(fin.anchor_ids, fin.graph, fin.depth) :
           fout' = <<out>>
    /\ OnlyResult

\* A call of validate_completeness.
ApplyValidateCompleteness ==
    /\ fin.f = "validate_completeness"
    /\ fout = <<>>
    /\ fout' = <<validate_completeness(fin.nodes)>>
    /\ OnlyResult

NextGraph ==
    \/ ApplyBuildGraph
    \/ ApplyExpand
    \/ ApplyValidateCompleteness

SpecGraph == InitGraph /\ [][NextGraph]_vars

\* ------------------------------------------------- retrieve_with_graph alone

\* The pages of the graphs retrieval runs on.
RetrievePageKinds ==
    {d \in GraphPageKinds : IsSome(d.page) /\ Get(d.page) <= 2}

\* The chunks of the vector store: the markers of each.
GraphChunkKinds ==
    {RawDoc(Some(1), 100, <<Mention("article", 1)>>),
     RawDoc(Some(2), 100, <<Mention("recital", 1), Mention("article", 2)>>),
     RawDoc(Some(7), 100, <<Mention("chapter", 1), Mention("article", 9)>>)}

\* The score dicts handed to retrieve_with_graph: the empty one (every score
\* is then the default 0.0), and one score per node, here the number of its
\* neighbours.
PageRanks(g) ==
    {<<>>, [id \in NodeIds(g) |-> Cardinality(neighbors(g, id))]}

RetrieveInput(raw, st, page_rank, k, depth, full) ==
    [f |-> "retrieve_with_graph", raw_docs |-> raw,
     graph |-> build_graph(extract_structured_nodes(raw)),
     store |-> st, page_rank |-> page_rank, k |-> k,
     neighbor_depth |-> depth, full_pages |-> full]

InitRetrieve ==
    /\ FunctionStart
    /\ \E raw \in SeqsUpTo(RetrievePageKinds, MaxGraphDocs),
          st \in SeqsUpTo(GraphChunkKinds, MaxGraphDocs),
          k \in {SmallK, RagDefaultK},
          depth \in {1, MaxDepth},
          full \in BOOLEAN :
           \E page_rank \in PageRanks(build_graph(extract_structured_nodes(raw))) :
               fin = RetrieveInput(raw, st, page_rank, k, depth, full)
    /\ fout = <<>>
    /\ writers = <<>>

\* A call of retrieve_with_graph; the store may fail, and the list that
\* expand_with_neighbors returns is one of those it may return.
ApplyRetrieveWithGraph ==
    /\ fin.f = "retrieve_with_graph"
    /\ fout = <<>>
    /\ \E search_ok \in BOOLEAN :
        LET anchors == anchor_ids_of(similarity_search(fin.store, fin.k), fin.graph)
        IN  \E expanded \in (IF search_ok /\ anchors # <<>>
                             THEN expand_with_neighbors(anchors, fin.graph,
                                                        fin.neighbor_depth)
                             ELSE {<<>>}) :
                fout' = <<retrieve_with_graph(fin.store, fin.graph, fin.page_rank,
                                              fin.k, fin.neighbor_depth,
                                              fin.full_pages, search_ok, expanded)>>
    /\ OnlyResult

NextRetrieve == ApplyRetrieveWithGraph

SpecRetrieve == InitRetrieve /\ [][NextRetrieve]_vars

\* -------------------------------------------------------------- properties

StepNames(ss) == [i \in 1..Len(ss) |-> ss[i].name]
EventNames(log) == [i \in 1..Len(log) |-> log[i].event]

\* The states of run that record a step, in state order.
StateOrder == <<"retrieval", "baseline_answer", "citation_check", "support_analysis",
                "regeneration", "summarizer_fallback">>
Rank(name) == CHOOSE i \in 1..Len(StateOrder) : StateOrder[i] = name

\* The record of the named step.
StepNamed(ss, name) == ss[CHOOSE i \in 1..Len(ss) : ss[i].name = name]

\* How many calls of op run has made, and what the call of op returned.
Count(op) == Cardinality({i \in 1..Len(calls) : calls[i].op = op})
CallOut(op) == Get(calls[CHOOSE i \in 1..Len(calls) : calls[i].op = op].out)

\* The regeneration fired: its step record says regenerated=True.
RegenFired ==
    \E i \in 1..Len(steps) : steps[i].name = "regeneration" /\ steps[i].regenerated

\* The baseline answer of the run: what the generation service returned to
\* rag.answer, or the offline context dump.
BaselineText ==
    IF key THEN CallOut("chat.baseline") ELSE rag_answer(store, FALSE, TRUE, None).text

\* The summarizer output of the run.
SummaryText ==
    IF key THEN CallOut("chat.summarizer") ELSE summarizer(docs, FALSE, None).text

\* The fallback trigger of section 4.4 evaluated on a text: the low flag of its
\* citation report, or its low-support ratio above regen_ratio.
TriggerOn(text) ==
    LET a == analyze_support(text, docs, cfg.hallucination_threshold, key, {})
    IN  \/ citation_checker(text).low
        \/ Len(a.low_support) * cfg.regen_ratio[2]
               > cfg.regen_ratio[1] * Max(Len(a.sentences), 1)

\* C1: the names of the step records are a subsequence of the state order,
\* without repetition; a returned run has the first four, once each, first.
C1_StepOrder ==
    LET names == StepNames(steps)
    IN  /\ \A i \in 1..Len(names) : names[i] \in Range(StateOrder)
        /\ \A i, j \in 1..Len(names) : i < j => Rank(names[i]) < Rank(names[j])
        /\ pc = "done" =>
              /\ Get(result).steps = steps
              /\ Len(names) >= 4
              /\ SubSeq(names, 1, 4) = SubSeq(StateOrder, 1, 4)

\* C1 witness: a returned run that recorded all six states.
C1_Witness == pc = "done" /\ StepNames(Get(result).steps) = StateOrder

\* C2 (as claimed): in a returned run the audit events, in log order, name the
\* states of the step records, followed by the terminal event.
C2_AuditMirrorsSteps ==
    pc = "done" =>
        EventNames(DECISIONS) = StepNames(steps) \o <<"agent_orchestrator_complete">>

\* C3 (as claimed): no failure of the retrieval, generation or embedding
\* collaborator leaves run as an exception.
C3_NoCollaboratorException ==
    ~(pc = "raised" /\ raised_by \in {"retriever", "generation", "embedding"})

\* C4 (as claimed): a failing write of the session file never leaves
\* log_event / log_retrieval, and so never run, as an exception.
C4_SinkFailureSwallowed ==
    ~(pc = "raised" /\ raised_by = "sink")

\* C5 (as claimed): when some embedding calls of analyze_support fail and
\* others succeed, it returns an analysis covering every sentence, the failing
\* sentences scored 0.
C5_PartialEmbeddingFailure ==
    LET made == EmbedCalls(base_answer, docs)
    IN  (/\ pc \in {"regeneration", "raised"}
         /\ raised_by \in {"none", "embedding"}
         /\ key
         /\ embed_bad # {} /\ embed_bad # made) =>
            /\ ~support.raised
            /\ Len(support.scores) = Len(split_sentences(base_answer))
            /\ \A i \in embed_bad \ {0} : support.scores[i] = <<0, 1>>

\* C6: regenerate_if_needed leaves the answer alone when the analysis is
\* offline, has no sentence, or |low_support| / |sentences| <= regen_ratio;
\* above the ratio, with the generation service answering, it returns the new
\* answer with reason "regen_trigger" and the low-support list.
C6_RegenerationThreshold ==
    (fin.f = "regenerate_if_needed" /\ fout # Idle) =>
        LET a == fin.analysis
            n == Len(a.sentences)
            l == Len(a.low_support)
            num == fin.regen_ratio[1]
            den == fin.regen_ratio[2]
        IN  /\ (a.offline \/ n = 0 \/ l * den <= num * n) =>
                  /\ ~fout.raised
                  /\ ~fout.regenerated
                  /\ fout.answer = fin.answer
            /\ (~a.offline /\ n > 0 /\ l * den > num * n /\ fin.key /\ IsSome(fin.resp)) =>
                  /\ ~fout.raised
                  /\ fout.regenerated
                  /\ fout.reason = "regen_trigger"
                  /\ fout.answer = Get(fin.resp)
                  /\ fout.low_support_before = a.low_support

\* C6 witness: 2 low-support sentences of 5 at ratio 0.4, the service
\* available, and no regeneration.
C6_Witness ==
    /\ fin.f = "regenerate_if_needed"
    /\ fout # Idle
    /\ ~fin.analysis.offline
    /\ Len(fin.analysis.sentences) = 5
    /\ Len(fin.analysis.low_support) = 2
    /\ fin.regen_ratio = <<2, 5>>
    /\ fin.key /\ IsSome(fin.resp)
    /\ ~fout.regenerated
    /\ fout.reason = "ratio_ok"

\* C7: a run makes at most one regeneration request, runs the citation
\* analysis and the support analysis once each, and both before the
\* regeneration request.
C7_SingleRegeneration ==
    /\ Count("chat.regeneration") <= 1
    /\ Count("citation_checker") <= 1
    /\ Count("verify_answer_citations") <= 1
    /\ Count("analyze_support") <= 1
    /\ pc \in {"regeneration", "fallback", "finalize", "done"} =>
          Count("citation_checker") = 1 /\ Count("analyze_support") = 1
    /\ \A i, j \in 1..Len(calls) :
          (/\ calls[i].op = "chat.regeneration"
           /\ calls[j].op \in {"citation_checker", "verify_answer_citations",
                               "analyze_support"}) => j < i

\* C7 witness: a returned run whose regeneration request was answered.
C7_Witness == pc = "done" /\ Count("chat.regeneration") = 1 /\ RegenFired

\* C8: the returned answer is the working answer (the regenerated answer if the
\* regeneration fired, else the baseline answer), then the fallback marker and
\* the summarizer output if the fallback fired, then the footer if configured.
C8_AnswerComposition ==
    pc = "done" =>
        LET r == Get(result)
            working == IF RegenFired THEN CallOut("chat.regeneration") ELSE BaselineText
            section == IF r.diagnostics.fallback_used
                       THEN <<FallbackMarker>> \o SummaryText ELSE <<>>
            body == working \o section
        IN  IF cfg.append_diagnostics_footer
            THEN /\ Len(r.answer) = Len(body) + 1
                 /\ SubSeq(r.answer, 1, Len(body)) = body
                 /\ r.answer[Len(r.answer)].t = "footer"
            ELSE r.answer = body

\* C8 witness: a returned run with a regenerated, non-empty working answer, the
\* fallback section and the footer.
C8_Witness ==
    /\ pc = "done"
    /\ RegenFired
    /\ CallOut("chat.regeneration") # <<>>
    /\ CallOut("chat.regeneration") # BaselineText
    /\ fallback_used
    /\ cfg.append_diagnostics_footer

\* C9 (as claimed): after a regeneration that fired, the fallback fires exactly
\* when the trigger holds of the regenerated answer.
C9_FallbackReadsRegenerated ==
    (pc = "done" /\ RegenFired /\ cfg.enable_fallback) =>
        (Get(result).diagnostics.fallback_used <=> TriggerOn(CallOut("chat.regeneration")))

\* C9 (amended): after a regeneration that fired, the fallback fires exactly
\* when the trigger holds of the baseline answer, the one the citation check
\* and the support analysis were made of.
C9_FallbackReadsBaseline ==
    (pc = "done" /\ RegenFired /\ cfg.enable_fallback) =>
        (Get(result).diagnostics.fallback_used <=> TriggerOn(BaselineText))

\* C9 witness: the fallback fired although the regenerated answer has enough
\* citations and no low-support sentence.
C9_Witness ==
    /\ pc = "done"
    /\ RegenFired
    /\ cfg.enable_fallback
    /\ fallback_used
    /\ ~TriggerOn(CallOut("chat.regeneration"))

\* C10: with enable_fallback, fallback_used holds exactly when the citation
\* report is low or low_support_count / max(sentences of the support
\* analysis, 1) > regen_ratio.
C10_FallbackTrigger ==
    (pc = "done" /\ cfg.enable_fallback) =>
        LET r == Get(result)
            cstep == StepNamed(r.steps, "citation_check")
            sstep == StepNamed(r.steps, "support_analysis")
        IN  r.diagnostics.fallback_used <=>
               \/ cstep.low
               \/ sstep.low_support_count * cfg.regen_ratio[2]
                      > cfg.regen_ratio[1] * Max(sstep.sentences, 1)

\* C10 witness: a returned run whose fallback fired on the low-support ratio
\* alone, and would not have with the sentence count of the citation checker
\* as the denominator.
C10_Witness ==
    /\ pc = "done"
    /\ cfg.enable_fallback
    /\ ~ccheck.low
    /\ Len(support.low_support) * cfg.regen_ratio[2]
           > cfg.regen_ratio[1] * Max(Len(support.sentences), 1)
    /\ Len(support.low_support) * cfg.regen_ratio[2]
           <= cfg.regen_ratio[1] * Max(ccheck.sentence_count, 1)
    /\ Get(result).diagnostics.fallback_used

RECURSIVE IsSubSeq(_, _)
\* a is b with some of its members left out.
IsSubSeq(a, b) ==
    IF a = <<>> THEN TRUE
    ELSE IF b = <<>> THEN FALSE
    ELSE IF Head(a) = Head(b) THEN IsSubSeq(Tail(a), Tail(b))
    ELSE IsSubSeq(a, Tail(b))

\* C11: without an API key every result of analyze_support is offline, scores
\* every sentence 0 and lists every sentence as low-support, and a repeated
\* call with the same input returns the same result.
C11_OfflineAnalysis ==
    (fin.f = "analyze_support" /\ ~fin.online) =>
        /\ \A c \in 1..Len(fout) :
              /\ ~fout[c].raised
              /\ fout[c].offline
              /\ Len(fout[c].scores) = Len(fout[c].sentences)
              /\ \A i \in 1..Len(fout[c].scores) : fout[c].scores[i] = <<0, 1>>
              /\ fout[c].low_support = fout[c].sentences
        /\ \A c, d \in 1..Len(fout) : fout[c] = fout[d]

\* C11 witness: two offline calls on an answer with a scored sentence and a
\* non-empty evidence set.
C11_Witness ==
    /\ fin.f = "analyze_support"
    /\ ~fin.online
    /\ Len(fout) >= 2
    /\ Len(fout[1].sentences) >= 1
    /\ fin.docs # <<>>

C13_OfflineNoRegeneration ==
    (pc \in {"regeneration", "fallback", "finalize", "done"} /\ support.offline) =>
        /\ Count("chat.regeneration") = 0
        /\ \A k \in BOOLEAN, r \in {None} \cup {Some(t) : t \in GenAnswers} :
              LET out == regenerate_if_needed(base_answer, support, cfg.regen_ratio, k, r)
              IN  ~out.raised /\ ~out.regenerated /\ out.answer = base_answer
        /\ regenerated_answer = None
        /\ base_answer = BaselineText
        /\ ~RegenFired
        /\ pc = "done" => ~Get(result).diagnostics.regenerated

\* C13 witness: a returned run with regeneration enabled whose offline
\* analysis lists a low-support sentence.
C13_Witness ==
    /\ pc = "done"
    /\ support.offline
    /\ cfg.enable_regeneration
    /\ Len(support.low_support) >= 1

\* C14: citation_checker returns coverage c / max(s, 1) for the c marker
\* occurrences and the s sentences of the answer, and low exactly when the
\* coverage is below 0.3; no marker gives coverage 0 and low, the empty answer
\* sentence_count 0.
C14_CoverageFormula ==
    (fin.f = "citation_checker" /\ fout # <<>>) =>
        LET r == fout[1]
            cov == r.citation_coverage
        IN  /\ Len(r.citations) = fin.c
            /\ r.sentence_count = fin.s
            /\ cov[2] > 0
            /\ cov[1] * Max(fin.s, 1) = fin.c * cov[2]
            /\ r.low <=> (fin.c * CoverageLowDen < CoverageLowNum * Max(fin.s, 1))
            /\ fin.c = 0 => (cov[1] = 0 /\ r.low)
            /\ fin.s = 0 => (r.sentence_count = 0 /\ r.citations = <<>>)

\* C14 witness: 3 markers in 10 sentences and an empty piece, coverage 0.3,
\* not low.
C14_Witness ==
    /\ fin.f = "citation_checker"
    /\ fout # <<>>
    /\ Len(fin.answer) = 11
    /\ fin.s = 10
    /\ fin.c = 3
    /\ ~fout[1].low

\* The article numbers a text cites, and the place of the first marker of one.
ArticleNums(text) ==
    {m.n : m \in {x \in Range(FindCitations(text)) : x.k = "Article"}}
FirstAt(text, n) ==
    LET ms == FindCitations(text)
    IN  CHOOSE i \in 1..Len(ms) :
            ms[i] = Article(n) /\ \A j \in 1..(i - 1) : ms[j] # Article(n)

\* C15: verify_answer_citations returns as cited the distinct article numbers
\* of the answer in first-occurrence order, as missing the members of cited
\* that the context does not cite, in the order of cited, and all_present
\* exactly when missing is empty; an empty context makes missing equal cited.
C15_CrossVerification ==
    (fin.f = "verify_answer_citations" /\ fout # <<>>) =>
        LET r == fout[1]
        IN  /\ Range(r.cited) = ArticleNums(fin.answer)
            /\ \A i, j \in 1..Len(r.cited) :
                  i < j => /\ r.cited[i] # r.cited[j]
                           /\ FirstAt(fin.answer, r.cited[i]) < FirstAt(fin.answer, r.cited[j])
            /\ IsSubSeq(r.missing, r.cited)
            /\ Range(r.missing) = ArticleNums(fin.answer) \ ArticleNums(fin.context)
            /\ r.all_present <=> (r.missing = <<>>)
            /\ fin.context = <<>> => r.missing = r.cited

\* C15 witness: an answer citing Article 6 twice and Article 9 once against a
\* context citing Article 6 only.
C15_Witness ==
    /\ fin.f = "verify_answer_citations"
    /\ fout # <<>>
    /\ Len(FindCitations(fin.answer)) = 3
    /\ ArticleNums(fin.context) = {6}
    /\ fout[1].cited = <<6, 9>>
    /\ fout[1].missing = <<9>>
    /\ ~fout[1].all_present

\* The entries writer w has appended so far.
Appended(w) ==
    MaxEntries - Len(writers[w].todo) + (IF writers[w].at = "call" THEN 0 ELSE 1)

\* C16 (as claimed): under every interleaving each appended entry is in the
\* audit log exactly once, and when every append has completed the session
\* file holds every entry of the log.
C16_ConcurrentAppends ==
    /\ \A w \in 1..Len(writers), n \in 1..MaxEntries :
          Cardinality({i \in 1..Len(DECISIONS) : DECISIONS[i] = Entry(w, n)})
              = (IF n <= Appended(w) THEN 1 ELSE 0)
    /\ (\A w \in 1..Len(writers) : writers[w].todo = <<>>) =>
          \A i \in 1..Len(DECISIONS) : DECISIONS[i] \in Range(session_file)

\* C17: until run is at its end the audit log has no terminal event; a
\* returned run has exactly one, the last entry of the log, with every
\* diagnostics field and the first 400 characters of the answer.
C17_TerminalEvent ==
    LET n == Len(DECISIONS)
        terminal == {i \in 1..n : DECISIONS[i].event = "agent_orchestrator_complete"}
    IN  /\ pc \notin {"done", "raised", "function"} => terminal = {}
        /\ pc = "done" =>
              LET r == Get(result)
                  e == DECISIONS[n]
              IN  /\ terminal = {n}
                  /\ session_file = DECISIONS
                  /\ \A f \in DOMAIN r.diagnostics :
                        f \in DOMAIN e /\ e[f] = r.diagnostics[f]
                  /\ Chars(e.answer_preview) <= PreviewLen
                  /\ Chars(e.answer_preview) = Min(Chars(r.answer), PreviewLen)

\* C17 witness: a returned run whose answer is longer than the preview.
C17_Witness ==
    /\ pc = "done"
    /\ Chars(Get(result).answer) > PreviewLen
    /\ Chars(DECISIONS[Len(DECISIONS)].answer_preview) = PreviewLen

\* C18: the diagnostics of a returned run have the seven fields, citations the
\* length of citation_list, and low_support_count the number of low-support
\* sentences of the support analysis.
C18_DiagnosticsRecord ==
    pc = "done" =>
        LET d == Get(result).diagnostics
        IN  /\ DOMAIN d = {"citation_coverage", "citations", "citation_list",
                           "missing_citations", "low_support_count", "fallback_used",
                           "regenerated"}
            /\ d.citations = Len(d.citation_list)
            /\ d.low_support_count = Len(support.low_support)
            /\ d.low_support_count
                   = StepNamed(Get(result).steps, "support_analysis").low_support_count

\* C18 witness: a returned run whose answer repeats a citation and has a
\* low-support sentence.
C18_Witness ==
    /\ pc = "done"
    /\ \E i, j \in 1..Len(ccheck.citations) : i < j /\ ccheck.citations[i] = ccheck.citations[j]
    /\ Get(result).diagnostics.low_support_count >= 1

\* The evidence each similarity search of the run returned, in call order.
Searched ==
    LET at == Filter(calls, {i \in 1..Len(calls) : calls[i].op = "similarity_search"})
    IN  [i \in 1..Len(at) |-> at[i].out]

\* C19 (as claimed): the evidence rag.answer builds the baseline answer from
\* is the evidence the retrieval step obtained, the one the citation
\* cross-verification and the support analysis use.
C19_BaselineUsesRetrievedEvidence ==
    pc \in {"citation_check", "support_analysis", "regeneration", "fallback",
            "finalize", "done"} =>
        /\ Len(Searched) = 2
        /\ Get(Searched[1]) = docs
        /\ Get(Searched[2]) = docs

\* C20: without an API key a run asks no service anything, its baseline answer
\* is the offline dump of the evidence and its summary the offline summary of
\* the evidence, and a second run on the same store returns what the first
\* returned.
C20_OfflineDeterminism ==
    ~key =>
        /\ \A i \in 1..Len(calls) :
              calls[i].op \in {"similarity_search", "citation_checker",
                               "verify_answer_citations", "analyze_support"}
        /\ pc = "raised" => raised_by \in {"retriever", "sink"}
        /\ pc \in {"citation_check", "support_analysis", "regeneration", "fallback",
                   "finalize", "done"} =>
              base_answer = <<OfflineNotice>>
                              \o RetrievedContext(format_docs(similarity_search(store, RagDefaultK)))
        /\ pc \in {"regeneration", "fallback", "finalize", "done"} => support.offline
        /\ fallback_used =>
              improved = <<OfflineSummarizerNotice>> \o Take(JoinContents(docs), OfflineSummaryLen)
        /\ (pc = "done" /\ earlier # <<>>) =>
              \A i \in 1..Len(earlier) : Get(result) = earlier[i]

\* C20 witness: the second run on a non-empty store has returned, with the
\* fallback section, what the first returned.
C20_Witness ==
    /\ ~key
    /\ pc = "done"
    /\ earlier # <<>>
    /\ store # <<>>
    /\ fallback_used
    /\ Get(result).answer = earlier[1].answer

\* ------------------------------------------------- properties of graph_rag.py

\* The page extract_structured_nodes gives the mentions of document i.
PageOfDoc(raw, i) == IF IsSome(raw[i].page) THEN Get(raw[i].page) ELSE i - 1

\* The documents of raw that mention the marker.
DocsMentioning(raw, type, number) ==
    {i \in 1..Len(raw) : \E j \in 1..Len(raw[i].page_content) :
                            raw[i].page_content[j] = Mention(type, number)}

\* The graph has an edge between u and v.
Adjacent(g, u, v) == \E e \in g.edges : e.ends = {u, v}

RECURSIVE Near(_, _, _, _)
\* Node n is at distance at most d of a member of S: there is a path of at
\* most d edges from n into S.
Near(g, S, n, d) ==
    \/ n \in S
    \/ d > 0 /\ \E m \in NodeIds(g) : Adjacent(g, n, m) /\ Near(g, S, m, d - 1)

\* The nodes at distance at most d of S.
Ball(g, S, d) == {n \in NodeIds(g) : Near(g, S, n, d)}

\* The distance of n to S, for n in the ball of radius d.
Level(g, S, n, d) == CHOOSE l \in 0..d : Near(g, S, n, l) /\ \A m \in 0..l - 1 : ~Near(g, S, n, m)

NoRepeat(s) == \A i, j \in 1..Len(s) : i # j => s[i] # s[j]

\* C21: every edge of the graph build_graph returns joins two nodes of the
\* graph; a chapter_contains edge joins a chapter node and an article node, a
\* recital_references edge a recital node and an article node.
C21_EdgeEndpoints ==
    (fin.f = "build_graph" /\ fout # <<>>) =>
        LET g == fout[1]
            Joins(e, a, b) ==
                \E u, v \in e.ends : /\ u # v
                                     /\ Attrs(g, u).type = a
                                     /\ Attrs(g, v).type = b
        IN  \A e \in g.edges :
                /\ e.ends \subseteq NodeIds(g)
                /\ Cardinality(e.ends) = 2
                /\ e.relation \in {"chapter_contains", "recital_references"}
                /\ e.relation = "chapter_contains" => Joins(e, "chapter", "article")
                /\ e.relation = "recital_references" => Joins(e, "recital", "article")

\* C21 witness: a graph built with an edge of each relation, from a node list
\* in which a recital's text mentions an article that is not a node.
C21_Witness ==
    /\ fin.f = "build_graph"
    /\ fout # <<>>
    /\ \E e \in fout[1].edges : e.relation = "chapter_contains"
    /\ \E e \in fout[1].edges : e.relation = "recital_references"
    /\ \E i \in 1..Len(fin.nodes) :
          /\ fin.nodes[i].type = "recital"
          /\ \E j \in 1..Len(fin.nodes[i].text) :
                /\ fin.nodes[i].text[j].type = "article"
                /\ ~has_node(fout[1], NodeId("article", fin.nodes[i].text[j].number))

\* C22: however many pages mention an article number, the graph built from
\* the parse has exactly one node with that id, its page is the page of one
\* of the mentions, and every chapter mentioned on the page of a mention is
\* linked to that node by a chapter_contains edge.
C22_NodeIdempotence ==
    (fin.f = "build_graph" /\ fin.dropped = 0 /\ fout # <<>>) =>
        LET g == fout[1]
            raw == fin.raw_docs
        IN  \A i \in 1..Len(raw) : \A j \in 1..Len(raw[i].page_content) :
                LET m == raw[i].page_content[j]
                    id == NodeId("article", m.number)
                IN  m.type = "article" =>
                      /\ Cardinality({n \in 1..Len(g.nodes) : g.nodes[n].id = id}) = 1
                      /\ \E d \in DocsMentioning(raw, "article", m.number) :
                            Attrs(g, id).page = PageOfDoc(raw, d)
                      /\ \A d \in 1..Len(raw) : \A c \in 1..Len(raw[d].page_content) :
                            (/\ raw[d].page_content[c].type = "chapter"
                             /\ PageOfDoc(raw, d) = PageOfDoc(raw, i)) =>
                                [ends |-> {NodeId("chapter", raw[d].page_content[c].number), id},
                                 relation |-> "chapter_contains"] \in g.edges

\* C22 witness: an article mentioned on two pages, each with a chapter of its
\* own, is one node of the built graph, linked to both chapters.
C22_Witness ==
    /\ fin.f = "build_graph"
    /\ fin.dropped = 0
    /\ fout # <<>>
    /\ \E a \in 1..2 :
          /\ \E d1, d2 \in DocsMentioning(fin.raw_docs, "article", a) :
                PageOfDoc(fin.raw_docs, d1) # PageOfDoc(fin.raw_docs, d2)
          /\ Cardinality({n \in 1..Len(fout[1].nodes) :
                             fout[1].nodes[n].id = NodeId("article", a)}) = 1
          /\ Adjacent(fout[1], NodeId("chapter", 1), NodeId("article", a))
          /\ Adjacent(fout[1], NodeId("chapter", 2), NodeId("article", a))

\* C23: expand_with_neighbors returns, each once, exactly the nodes at
\* distance at most depth of an anchor; every anchor is among them, and with
\* depth 0 they are the anchors.
C23_ExpansionBall ==
    (fin.f = "expand_with_neighbors" /\ fout # <<>>) =>
        LET out == fout[1]
            anchors == Range(fin.anchor_ids)
        IN  /\ NoRepeat(out)
            /\ Range(out) = Ball(fin.graph, anchors, fin.depth)
            /\ anchors \subseteq Range(out)
            /\ fin.depth = 0 => Range(out) = anchors

\* C23 witness: an expansion of depth 2 that returned a node at distance 2 of
\* the anchors and left out a node of the graph farther away.
C23_Witness ==
    /\ fin.f = "expand_with_neighbors"
    /\ fout # <<>>
    /\ fin.depth = 2
    /\ \E n \in Range(fout[1]) : ~Near(fin.graph, Range(fin.anchor_ids), n, 1)
    /\ \E n \in NodeIds(fin.graph) : n \notin Range(fout[1])

\* The ids of the article and recital markers of the chunks that are nodes of
\* the graph, each with the first chunk that mentions it.
MentionedNodes(retrieved, g) ==
    {id \in NodeIds(g) :
        /\ id[1] \in {"article", "recital"}
        /\ DocsMentioning(retrieved, id[1], id[2]) # {}}
FirstChunk(retrieved, id) ==
    CHOOSE i \in DocsMentioning(retrieved, id[1], id[2]) :
        \A j \in DocsMentioning(retrieved, id[1], id[2]) : i <= j

\* C24: when the vector retrieval returns, retrieve_with_graph maps the
\* chunks to the ids of the article and recital markers they hold that are
\* nodes of the graph, each once, in the order of the chunks that first
\* mention them; it returns the sentinel text and no id, without expanding,
\* exactly when there is no such marker.
C24_AnchorMapping ==
    (fin.f = "retrieve_with_graph" /\ fout # <<>> /\ ~fout[1].raised) =>
        LET out == fout[1]
            retrieved == similarity_search(fin.store, fin.k)
            mentioned == MentionedNodes(retrieved, fin.graph)
        IN  /\ Range(out.anchor_ids) \subseteq NodeIds(fin.graph)
            /\ Range(out.anchor_ids) = mentioned
            /\ NoRepeat(out.anchor_ids)
            /\ \A i, j \in 1..Len(out.anchor_ids) :
                  i < j => FirstChunk(retrieved, out.anchor_ids[i])
                             <= FirstChunk(retrieved, out.anchor_ids[j])
            /\ (out.context = <<NoStructuralMatch>>) <=> (mentioned = {})
            /\ mentioned = {} => out.node_ids = <<>> /\ out.expanded_ids = None
            /\ mentioned # {} => out.node_ids # <<>> /\ IsSome(out.expanded_ids)

\* C24 witness: over a graph with nodes, the retrieved chunks mention an
\* article that is no node of it and a chapter that is, and the sentinel is
\* returned.
C24_Witness ==
    /\ fin.f = "retrieve_with_graph"
    /\ fout # <<>>
    /\ ~fout[1].raised
    /\ fout[1].context = <<NoStructuralMatch>>
    /\ fout[1].node_ids = <<>>
    /\ has_node(fin.graph, NodeId("chapter", 1))
    /\ DocsMentioning(similarity_search(fin.store, fin.k), "article", 9) # {}

\* C25 (as claimed): when there is an anchor, the ids returned are the
\* expanded set, each once, by non-increasing score, ids of equal score in
\* breadth-first order (an id nearer to the anchors before one farther), and
\* the context has one block for each of the first 2k ids, in that order.
C25_RerankOrder ==
    (fin.f = "retrieve_with_graph" /\ fout # <<>> /\ ~fout[1].raised
        /\ fout[1].anchor_ids # <<>>) =>
        LET out == fout[1]
            ids == out.node_ids
            anchors == Range(out.anchor_ids)
            d == fin.neighbor_depth
        IN  /\ NoRepeat(ids)
            /\ Range(ids) = Ball(fin.graph, anchors, d)
            /\ \A i, j \in 1..Len(ids) :
                  i < j => Score(fin.page_rank, ids[i]) >= Score(fin.page_rank, ids[j])
            /\ \A i, j \in 1..Len(ids) :
                  (i < j /\ Score(fin.page_rank, ids[i]) = Score(fin.page_rank, ids[j])) =>
                      Level(fin.graph, anchors, ids[i], d)
                          <= Level(fin.graph, anchors, ids[j], d)
            /\ Len(out.context) = Min(2 * fin.k, Len(ids))
            /\ \A i \in 1..Len(out.context) :
                  NodeId(out.context[i].type, out.context[i].number) = ids[i]

\* The part of C25 that does not speak of the order of equal scores.
C25_RerankWithoutTies ==
    (fin.f = "retrieve_with_graph" /\ fout # <<>> /\ ~fout[1].raised
        /\ fout[1].anchor_ids # <<>>) =>
        LET out == fout[1]
            ids == out.node_ids
        IN  /\ NoRepeat(ids)
            /\ Range(ids) = Ball(fin.graph, Range(out.anchor_ids), fin.neighbor_depth)
            /\ \A i, j \in 1..Len(ids) :
                  i < j => Score(fin.page_rank, ids[i]) >= Score(fin.page_rank, ids[j])
            /\ Len(out.context) = Min(2 * fin.k, Len(ids))
            /\ \A i \in 1..Len(out.context) :
                  NodeId(out.context[i].type, out.context[i].number) = ids[i]

\* The numbers of the nodes of one type in the input of validate_completeness.
NumbersIn(nodes, type) ==
    {Get(nodes[i].number) : i \in {j \in 1..Len(nodes) :
                                      nodes[j].type = type /\ IsSome(nodes[j].number)}}

\* The list holds the smallest members of S, at most MissingCap of them, in
\* ascending order.
SmallestOf(list, S) ==
    /\ Len(list) = Min(MissingCap, Cardinality(S))
    /\ Range(list) \subseteq S
    /\ \A i, j \in 1..Len(list) : i < j => list[i] < list[j]
    /\ \A x \in S \ Range(list) : \A i \in 1..Len(list) : list[i] < x

\* C26 (as claimed): articles_found is at most 99 and recitals_found at most
\* 173; a complete flag is true exactly when no number of its range is
\* missing; a missing list holds the at most 20 smallest missing numbers in
\* ascending order.
C26_Completeness ==
    (fin.f = "validate_completeness" /\ fout # <<>>) =>
        LET out == fout[1]
            no_articles == (1..ArticleRange) \ NumbersIn(fin.nodes, "article")
            no_recitals == (1..RecitalRange) \ NumbersIn(fin.nodes, "recital")
        IN  /\ out.articles_found <= ArticleRange
            /\ out.recitals_found <= RecitalRange
            /\ out.articles_complete <=> (no_articles = {})
            /\ out.recitals_complete <=> (no_recitals = {})
            /\ SmallestOf(out.missing_articles, no_articles)
            /\ SmallestOf(out.missing_recitals, no_recitals)

\* The part of C26 that does not bound the two counts.
C26_FlagsAndMissing ==
    (fin.f = "validate_completeness" /\ fout # <<>>) =>
        LET out == fout[1]
            no_articles == (1..ArticleRange) \ NumbersIn(fin.nodes, "article")
            no_recitals == (1..RecitalRange) \ NumbersIn(fin.nodes, "recital")
        IN  /\ out.articles_complete <=> (no_articles = {})
            /\ out.recitals_complete <=> (no_recitals = {})
            /\ SmallestOf(out.missing_articles, no_articles)
            /\ SmallestOf(out.missing_recitals, no_recitals)

\* --------------------------------------------- properties of the LangGraph nodes

\* C27: fed with the answer, the evidence, the citation report and the
\* support analysis run holds at its regeneration step with the default
\* configuration, the regen node regenerates exactly when run does, the
\* fallback node uses the summarizer exactly when run does, and both
\* pipelines decide on regeneration before they decide on the fallback.
C27_LangGraphMirrors ==
    fin # Idle =>
        /\ \A i \in 1..Len(fout) :
              ~fout[i].raised => fout[i].node = <<"regen", "fallback">>[i]
        /\ \A i, j \in 1..Len(steps) :
              (steps[i].name = "regeneration" /\ steps[j].name = "summarizer_fallback")
                  => i < j
        /\ (~fout[1].raised /\ pc \in {"fallback", "finalize", "done"}) =>
              (fout[1].regenerated <=> RegenFired)
        /\ (Len(fout) = 2 /\ ~fout[2].raised /\ pc \in {"finalize", "done"}) =>
              (fout[2].fallback_used <=> fallback_used)

\* C27 witness: both pipelines regenerated and then used the summarizer, and
\* run has returned.
C27_Witness ==
    /\ fin # Idle
    /\ Len(fout) = 2
    /\ ~fout[2].raised
    /\ fout[2].regenerated
    /\ fout[2].fallback_used
    /\ pc = "done"
    /\ RegenFired
    /\ fallback_used

\* ------------------------------------ properties of the flags and the switches

\* The answer returned holds the fallback section, the footer.
HasFallbackSection(answer) == \E i \in 1..Len(answer) : answer[i] = FallbackMarker
HasFooter(answer) == \E i \in 1..Len(answer) : answer[i].t = "footer"
FooterOf(answer) == answer[CHOOSE i \in 1..Len(answer) : answer[i].t = "footer"]

\* C28 (as claimed): in every result, diagnostics.regenerated is true exactly
\* when steps holds a regeneration record with regenerated=True,
\* diagnostics.fallback_used is true exactly when steps holds a
\* summarizer_fallback record and the answer the fallback section, and the
\* digits regen and fallback of the footer show those two values.
C28_DiagnosticsFlags ==
    pc = "done" =>
        LET r == Get(result)
            regenerated == \E i \in 1..Len(r.steps) :
                              r.steps[i].name = "regeneration" /\ r.steps[i].regenerated
            fallback == /\ \E i \in 1..Len(r.steps) : r.steps[i].name = "summarizer_fallback"
                        /\ HasFallbackSection(r.answer)
        IN  /\ r.diagnostics.regenerated <=> regenerated
            /\ r.diagnostics.fallback_used <=> fallback
            /\ HasFooter(r.answer) =>
                  /\ FooterOf(r.answer).regen = (IF regenerated THEN 1 ELSE 0)
                  /\ FooterOf(r.answer).fallback = (IF fallback THEN 1 ELSE 0)

\* The part of C28 on the fallback flag, and the agreement of the footer with
\* the diagnostics.
C28_FallbackFlagAndFooter ==
    pc = "done" =>
        LET r == Get(result)
            fallback == /\ \E i \in 1..Len(r.steps) : r.steps[i].name = "summarizer_fallback"
                        /\ HasFallbackSection(r.answer)
        IN  /\ r.diagnostics.fallback_used <=> fallback
            /\ (\E i \in 1..Len(r.steps) : r.steps[i].name = "summarizer_fallback")
                  <=> HasFallbackSection(r.answer)
            /\ HasFooter(r.answer) =>
                  /\ FooterOf(r.answer).regen = (IF r.diagnostics.regenerated THEN 1 ELSE 0)
                  /\ FooterOf(r.answer).fallback = (IF r.diagnostics.fallback_used THEN 1 ELSE 0)

C30_SwitchesHonoured ==
    /\ ~cfg.enable_regeneration =>
          /\ Count("chat.regeneration") = 0
          /\ \A i \in 1..Len(steps) : steps[i].name # "regeneration"
          /\ regenerated_answer = None
          /\ pc \in {"citation_check", "support_analysis", "regeneration", "fallback",
                     "finalize", "done"} => base_answer = BaselineText
    /\ ~cfg.enable_fallback =>
          /\ Count("chat.summarizer") = 0
          /\ \A i \in 1..Len(steps) : steps[i].name # "summarizer_fallback"
          /\ ~fallback_used
          /\ improved = <<>>
          /\ pc = "done" => ~HasFallbackSection(Get(result).answer)
    /\ (~cfg.append_diagnostics_footer /\ pc = "done") =>
          /\ ~HasFooter(Get(result).answer)
          /\ earlier # <<>> =>
                /\ Get(result).steps = earlier[1].result.steps
                /\ Get(result).diagnostics = earlier[1].result.diagnostics
                /\ HasFooter(earlier[1].result.answer)
                /\ earlier[1].result.answer
                      = Get(result).answer \o <<FooterOf(earlier[1].result.answer)>>

\* C30 witness: a run with the footer regenerated and used the fallback, and
\* the same run without the footer has returned.
C30_Witness ==
    /\ pc = "done"
    /\ earlier # <<>>
    /\ ~cfg.append_diagnostics_footer
    /\ RegenFired
    /\ fallback_used
    /\ Get(result).diagnostics.regenerated

=============================================================================
